---- MODULE Spec2Model ----
(***************************************************************************)
(* State-machine model of the SudokuGrid component                         *)
(* (src/src/components/sudoku/grid.tsx) with its selection helpers         *)
(* (utils/selection.ts), target resolver (utils/grids.ts) and the SG1      *)
(* codec (utils/stateCodec.ts).                                            *)
(*                                                                         *)
(* The component is modelled in its uncontrolled mode (the props           *)
(* currentCell and selectedCells are undefined, so `current` and           *)
(* `selection` are the internal React state).  A handler runs against the  *)
(* state of the last render; its batched state updates are committed when  *)
(* it returns.  The passive effect that records history (grid.tsx:128)     *)
(* and the setTimeout(0) callbacks that release suppressHistoryRef are     *)
(* separate steps, because the two are scheduled independently.            *)
(*                                                                         *)
(* Strings are sequences of one-character strings.                         *)
(***************************************************************************)
EXTENDS Integers, Sequences, FiniteSets, TLC

VARIABLES
  size,                \* prop `size`
  preset,              \* useState preset
  userGrid,            \* useState userGrid
  centerNotes,         \* useState centerNotes  (cell -> set of digits)
  cornerNotes,         \* useState cornerNotes
  colorGrid,           \* useState colorGrid    (cell -> sequence of colours)
  internalSelection,   \* useState internalSelection (cell -> BOOLEAN)
  internalCurrent,     \* useState internalCurrent (a cell, or Undefined)
  selectionStack,      \* useState selectionStack (sequence of cells)
  dragRef,             \* useRef dragRef (a record, mode "none" when null)
  historyRef,          \* useRef historyRef (sequence of payload strings)
  histIndexRef,        \* useRef histIndexRef
  suppressHistoryRef,  \* useRef suppressHistoryRef
  timers,              \* number of pending setTimeout(0) callbacks
  effectQueued,        \* the history effect of the last commit has not run yet
  lastCall,            \* the last handler that ran and what it returned or threw
  codecIn,             \* argument of a direct call of a stateCodec function
  codecOut             \* what that call returned or threw (Undefined before it)

vars == <<size, preset, userGrid, centerNotes, cornerNotes, colorGrid,
          internalSelection, internalCurrent, selectionStack, dragRef,
          historyRef, histIndexRef, suppressHistoryRef, timers, effectQueued, lastCall,
          codecIn, codecOut>>

codecVars == <<codecIn, codecOut>>
gridVars == <<userGrid, centerNotes, cornerNotes, colorGrid>>
selVars  == <<internalSelection, internalCurrent, selectionStack, dragRef>>
histVars == <<historyRef, histIndexRef>>

(***************************************************************************)
(* Basic values                                                            *)
(***************************************************************************)
Undefined == <<>>

Max2(a, b) == IF a >= b THEN a ELSE b
Min2(a, b) == IF a <= b THEN a ELSE b

RECURSIVE Pow2(_)
Pow2(k) == IF k <= 0 THEN 1 ELSE 2 * Pow2(k - 1)

Cells(n) == (0 .. n - 1) \X (0 .. n - 1)

\* the cells of an n x n matrix in the order of the nested r/c loops
RowMajor(n) == [k \in 1 .. n * n |-> <<(k - 1) \div n, (k - 1) % n>>]

createNumberGrid(n) == [cell \in Cells(n) |-> 0]

createDigitCube(n) == [cell \in Cells(n) |-> {}]

createColorGrid(n) == [cell \in Cells(n) |-> <<>>]

(***************************************************************************)
(* utils/selection.ts                                                      *)
(***************************************************************************)
createEmptySelection(n) == [cell \in Cells(n) |-> FALSE]

hasAnySelected(sel) == \E cell \in DOMAIN sel : sel[cell]

buildSingleSelection(n, r, c) == [cell \in Cells(n) |-> cell = <<r, c>>]

sameCell(a, b) == a[1] = b[1] /\ a[2] = b[2]

\* findIndex: 0-based index of the first match, -1 if none
indexInStack(stack, cell) ==
  IF \E i \in 1 .. Len(stack) : stack[i] = cell
  THEN (CHOOSE i \in 1 .. Len(stack) :
          stack[i] = cell /\ \A j \in 1 .. i - 1 : stack[j] # cell) - 1
  ELSE -1

pushIfAbsent(stack, cell) ==
  IF indexInStack(stack, cell) = -1 THEN Append(stack, cell) ELSE stack

removeFromStack(stack, cell) == SelectSeq(stack, LAMBDA x : x # cell)

RECURSIVE stackFromCells(_, _, _)
stackFromCells(mat, order, k) ==
  IF k > Len(order) THEN <<>>
  ELSE (IF mat[order[k]] THEN <<order[k]>> ELSE <<>>) \o stackFromCells(mat, order, k + 1)

stackFromMatrix(mat, n) == stackFromCells(mat, RowMajor(n), 1)

(***************************************************************************)
(* utils/grids.ts                                                          *)
(***************************************************************************)
\* variant: the current cell takes precedence over the selection
selectionTargetsCurrentFirst(sel, cur, n) ==
  IF cur # Undefined THEN <<cur>>
  ELSE IF hasAnySelected(sel) THEN stackFromMatrix(sel, n) ELSE <<>>

selectionTargets(sel, cur, n) ==
  IF hasAnySelected(sel) THEN stackFromMatrix(sel, n)
  ELSE IF cur # Undefined THEN <<cur>> ELSE <<>>

(***************************************************************************)
(* lib/utils.ts                                                            *)
(***************************************************************************)
clamp(v, lo, hi) == Min2(hi, Max2(lo, v))

\* variant: wraps around the board edges
neighborWrap(cell, dr, dc, n) == <<(cell[1] + dr) % n, (cell[2] + dc) % n>>

neighbor(cell, dr, dc, n) == <<clamp(cell[1] + dr, 0, n - 1), clamp(cell[2] + dc, 0, n - 1)>>

(***************************************************************************)
(* utils/stateCodec.ts                                                     *)
(***************************************************************************)
B36 == <<"0", "1", "2", "3", "4", "5", "6", "7", "8", "9", "a", "b", "c", "d",
         "e", "f", "g", "h", "i", "j", "k", "l", "m", "n", "o", "p", "q", "r",
         "s", "t", "u", "v", "w", "x", "y", "z">>

IsDigit36(ch) == \E i \in 1 .. 36 : B36[i] = ch

DigitValue(ch) == (CHOOSE i \in 1 .. 36 : B36[i] = ch) - 1

SG1_HEADER == <<"S", "G", "1", "|">>

ColorNames == {"red", "orange", "yellow", "green", "blue", "cyan", "violet", "pink", "transparent"}

COLOR_TO_CODE ==
  [clr \in ColorNames |->
     CASE clr = "red" -> "r" [] clr = "orange" -> "o" [] clr = "yellow" -> "y"
       [] clr = "green" -> "g" [] clr = "blue" -> "b" [] clr = "cyan" -> "c"
       [] clr = "violet" -> "v" [] clr = "pink" -> "p" [] clr = "transparent" -> "t"]

\* CODE_TO_COLOR[ch], as a sequence: <<name>> for a known code, <<>> for undefined
CODE_TO_COLOR(ch) ==
  IF \E clr \in ColorNames : COLOR_TO_CODE[clr] = ch
  THEN <<CHOOSE clr \in ColorNames : COLOR_TO_CODE[clr] = ch>>
  ELSE <<>>

\* Number.prototype.toString(36) for n >= 0
RECURSIVE to36(_)
to36(n) == IF n < 36 THEN <<B36[n + 1]>> ELSE to36(n \div 36) \o <<B36[(n % 36) + 1]>>

NaN == -1

\* parseInt(s, 36) on strings without sign or white space: the value of the
\* longest prefix of base-36 digits, NaN when that prefix is empty
RECURSIVE parseDigits(_, _, _)
parseDigits(s, i, acc) ==
  IF i > Len(s) \/ ~IsDigit36(s[i]) THEN acc
  ELSE parseDigits(s, i + 1, acc * 36 + DigitValue(s[i]))

parseInt36(s) == IF Len(s) = 0 \/ ~IsDigit36(s[1]) THEN NaN ELSE parseDigits(s, 1, 0)

from36(s) == IF parseInt36(s) = NaN THEN 0 ELSE parseInt36(s)

maskWidthForSize(n) == Max2(1, Len(to36(Max2(0, Pow2(n) - 1))))

\* results of functions that may throw
Ok(v) == [ok |-> TRUE, val |-> v, err |-> ""]
Throw(msg) == [ok |-> FALSE, val |-> <<>>, err |-> msg]

\* parts[lo] \o ... \o parts[hi], by halves
RECURSIVE ConcatRange(_, _, _)
ConcatRange(parts, lo, hi) ==
  IF lo > hi THEN <<>>
  ELSE IF lo = hi THEN parts[lo]
  ELSE ConcatRange(parts, lo, (lo + hi) \div 2) \o ConcatRange(parts, (lo + hi) \div 2 + 1, hi)

Concat(parts, k) == ConcatRange(parts, k, Len(parts))

encodeNumGrid(grid, n) ==
  IF \E cell \in Cells(n) : grid[cell] < 0 \/ grid[cell] >= 36
  THEN Throw("Value out of encodable range (0..35)")
  ELSE Ok(Concat([k \in 1 .. n * n |-> to36(grid[RowMajor(n)[k]])], 1))

decodeNumGrid(s, n) ==
  IF Len(s) # n * n THEN Throw("Corrupt state: number grid length mismatch")
  ELSE Ok([cell \in Cells(n) |-> from36(<<s[cell[1] * n + cell[2] + 1]>>)])

RECURSIVE maskOf(_, _, _)
maskOf(digits, d, n) ==
  IF d > n THEN 0
  ELSE (IF d \in digits THEN Pow2(d - 1) ELSE 0) + maskOf(digits, d + 1, n)

\* variant: leaves the string unpadded
padStartNone(s, width, ch) == s

padStart(s, width, ch) ==
  IF Len(s) >= width THEN s ELSE [i \in 1 .. width - Len(s) |-> ch] \o s

encodeDigitCube(cube, n) ==
  [width |-> maskWidthForSize(n),
   data  |-> Concat([k \in 1 .. n * n |->
                       padStart(to36(maskOf(cube[RowMajor(n)[k]], 1, n)),
                                maskWidthForSize(n), "0")], 1)]

decodeDigitCube(payload, n) ==
  IF Len(payload) = 0 THEN Throw("Corrupt state: empty cube payload")
  ELSE LET width == from36(<<payload[1]>>)
           body  == Tail(payload)
       IN IF width < 1 \/ width > 10 THEN Throw("Corrupt state: invalid mask width")
          ELSE IF Len(body) # n * n * width THEN Throw("Corrupt state: mask length mismatch")
          ELSE Ok([cell \in Cells(n) |->
                     LET i    == (cell[1] * n + cell[2]) * width
                         mask == from36(SubSeq(body, i + 1, i + width))
                     IN {d \in 1 .. n : (mask \div Pow2(d - 1)) % 2 = 1}])

encodeColors(grid, n) ==
  IF \E cell \in Cells(n) : Len(grid[cell]) >= 36
  THEN Throw("Too many color stripes in a cell (max 35)")
  ELSE Ok(Concat([k \in 1 .. n * n |->
                    LET list == grid[RowMajor(n)[k]]
                    IN to36(Len(list)) \o [j \in 1 .. Len(list) |-> COLOR_TO_CODE[list[j]]]], 1))

\* the loop of decodeColors over the cells lo .. hi (1-based, row-major)
\* entered with the read position i (0-based, as in the source), evaluated by
\* halves: whether it threw, the read position it leaves, and the list of
\* each cell
RECURSIVE decodeColorsFrom(_, _, _, _)
decodeColorsFrom(s, lo, hi, i) ==
  IF lo = hi
  THEN IF i >= Len(s) THEN [ok |-> FALSE, i |-> i, lists |-> <<>>]
       ELSE LET len == from36(<<s[i + 1]>>)
                seg == SubSeq(s, i + 2, Min2(Len(s), i + 1 + len))
            IN [ok |-> TRUE, i |-> i + 1 + len,
                lists |-> lo :> Concat([j \in 1 .. Len(seg) |-> CODE_TO_COLOR(seg[j])], 1)]
  ELSE LET mid   == (lo + hi) \div 2
           first == decodeColorsFrom(s, lo, mid, i)
       IN IF ~first.ok THEN first
          ELSE LET rest == decodeColorsFrom(s, mid + 1, hi, first.i)
               IN IF ~rest.ok THEN rest
                  ELSE [ok |-> TRUE, i |-> rest.i, lists |-> first.lists @@ rest.lists]

decodeColors(s, n) ==
  LET all == decodeColorsFrom(s, 1, n * n, 0)
  IN IF ~all.ok THEN Throw("Corrupt state: truncated colors segment")
     ELSE Ok([cell \in Cells(n) |-> all.lists[cell[1] * n + cell[2] + 1]])

RECURSIVE join(_, _, _)
join(parts, sep, k) ==
  IF k > Len(parts) THEN <<>>
  ELSE IF k = Len(parts) THEN parts[k]
  ELSE parts[k] \o <<sep>> \o join(parts, sep, k + 1)

\* String.prototype.split for a one-character separator
RECURSIVE split(_, _, _, _)
split(s, sep, i, cur) ==
  IF i > Len(s) THEN <<cur>>
  ELSE IF s[i] = sep THEN <<cur>> \o split(s, sep, i + 1, <<>>)
  ELSE split(s, sep, i + 1, Append(cur, s[i]))

startsWith(s, prefix) ==
  Len(s) >= Len(prefix) /\ SubSeq(s, 1, Len(prefix)) = prefix

buildPayload(n, pre, user, center, corner, colors) ==
  LET presetEnc == encodeNumGrid(pre, n)
      userEnc   == encodeNumGrid(user, n)
      cCenter   == encodeDigitCube(center, n)
      cCorner   == encodeDigitCube(corner, n)
      colorsEnc == encodeColors(colors, n)
  IN IF ~presetEnc.ok THEN presetEnc
     ELSE IF ~userEnc.ok THEN userEnc
     ELSE IF ~colorsEnc.ok THEN colorsEnc
     ELSE Ok(join(<<<<"S", "G", "1">>, to36(n), presetEnc.val, userEnc.val,
                    to36(cCenter.width) \o cCenter.data,
                    to36(cCorner.width) \o cCorner.data,
                    colorsEnc.val, <<>>>>, "|", 1))

(***************************************************************************)
(* Component state derived at render                                       *)
(***************************************************************************)
MAX_HISTORY == 200

current == internalCurrent

selection == internalSelection

\* variant: only values above 1 lock a cell
isPresetAboveOne(cell) == preset[cell] > 1

isPreset(cell) == preset[cell] > 0

Range(seq) == {seq[i] : i \in 1 .. Len(seq)}

EditOps == {"setDigit", "toggleCenterNote", "toggleCornerNote", "clearCenterNotes",
            "clearCornerNotes", "annotateColor", "annotateClear", "reset"}

\* dragRef.current = null; the field `at` is not in the source: it records the
\* cell of the latest pointer-down or pointer-move event of the drag
NullDrag == [mode |-> "none", start |-> Undefined, working |-> <<>>,
             visited |-> {}, last |-> Undefined, at |-> Undefined]

draggingRef == dragRef.mode # "none"

snapshot == buildPayload(size, preset, userGrid, centerNotes, cornerNotes, colorGrid)

\* variant: appends without trimming the front of the log
pushHistoryUntrimmed(h, idx, suppress, snap) ==
  IF suppress > 0 THEN [h |-> h, idx |-> idx]
  ELSE IF idx >= 0 /\ h[idx + 1] = snap THEN [h |-> h, idx |-> idx]
  ELSE [h |-> Append(SubSeq(h, 1, idx + 1), snap), idx |-> idx + 1]

\* variant: a snapshot equal to the entry at the cursor is appended as well
pushHistoryNoDedupe(h, idx, suppress, snap) ==
  IF suppress > 0 THEN [h |-> h, idx |-> idx]
  ELSE LET h1 == IF idx < Len(h) - 1 THEN SubSeq(h, 1, idx + 1) ELSE h
           h2 == Append(h1, snap)
           h3 == IF Len(h2) > MAX_HISTORY
                 THEN SubSeq(h2, Len(h2) - MAX_HISTORY + 1, Len(h2)) ELSE h2
       IN [h |-> h3, idx |-> Len(h3) - 1]

\* pushHistory(snap): the log and cursor it leaves
pushHistory(h, idx, suppress, snap) ==
  IF suppress > 0 THEN [h |-> h, idx |-> idx]
  ELSE IF idx >= 0 /\ h[idx + 1] = snap THEN [h |-> h, idx |-> idx]
  ELSE LET h1 == IF idx < Len(h) - 1 THEN SubSeq(h, 1, idx + 1) ELSE h
           h2 == Append(h1, snap)
           h3 == IF Len(h2) > MAX_HISTORY
                 THEN SubSeq(h2, Len(h2) - MAX_HISTORY + 1, Len(h2)) ELSE h2
       IN [h |-> h3, idx |-> Len(h3) - 1]

\* useEffect(() => pushHistory(snapshot()), [userGrid, centerNotes, cornerNotes, colorGrid])
HistoryEffect ==
  /\ effectQueued
  /\ effectQueued' = FALSE
  /\ \E snap \in {snapshot} :
       IF snap.ok
       THEN \E p \in {pushHistory(historyRef, histIndexRef, suppressHistoryRef, snap.val)} :
              /\ historyRef' = p.h
              /\ histIndexRef' = p.idx
              /\ lastCall' = IF /\ p.h # historyRef
                                /\ lastCall.trail = "undo-edit"
                                /\ lastCall.op \in EditOps
                             THEN [lastCall EXCEPT !.trail = "undo-recorded"]
                             ELSE lastCall
       ELSE UNCHANGED <<histVars, lastCall>>
  /\ UNCHANGED <<codecVars, size, preset, gridVars, selVars, suppressHistoryRef, timers>>

\* setTimeout(() => suppressHistoryRef.current--, 0)
ReleaseTimer ==
  /\ timers > 0
  /\ timers' = timers - 1
  /\ suppressHistoryRef' = suppressHistoryRef - 1
  /\ UNCHANGED <<codecVars, size, preset, gridVars, selVars, histVars, effectQueued, lastCall>>

(***************************************************************************)
(* Editing operations of the handle.  withTargets calls fn once for every  *)
(* target; the queued updaters each rewrite one (distinct) cell, so the    *)
(* committed grid is the old one rewritten at every target fn did not      *)
(* skip.  A setter call gives the grid a new identity, which queues the    *)
(* history effect.                                                         *)
(***************************************************************************)
targetsNow == selectionTargets(selection, current, size)

\* Observation record of the last handler: its name, what it returned or
\* threw, and where the call sequence stands with respect to undo:
\*   "undo"          the last undo/redo/import was a successful undo
\*   "undo-edit"     ... and an editing operation with a non-empty target
\*                   list (or reset) was called since
\*   "undo-recorded" ... and pushHistory appended that operation's snapshot
\* prior is the trail before the call.
Trail(op, result) ==
  IF op = "undo" THEN (IF result = "true" THEN "undo" ELSE "")
  ELSE IF op \in {"redo", "importState"} THEN ""
  ELSE IF /\ op \in EditOps
          /\ lastCall.trail = "undo"
          /\ (op = "reset" \/ Len(targetsNow) > 0)
       THEN "undo-edit"
  ELSE lastCall.trail

\* arg is <<d>> for a note toggle called with the digit d, <<>> otherwise;
\* before is the four grids as they were when a successful undo was called,
\* <<>> after every other call
Call(op, result) ==
  [op |-> op, result |-> result, trail |-> Trail(op, result), prior |-> lastCall.trail,
   arg |-> <<>>, before |-> <<>>]

\* skipped: the cells for which fn returns before its setter; upd: the value
\* the queued updater writes at each cell
withTargets(grid, skipped, upd) ==
  [cell \in DOMAIN grid |->
     IF cell \in Range(targetsNow) /\ cell \notin skipped THEN upd[cell] ELSE grid[cell]]

anyCalled(skipped) == \E cell \in Range(targetsNow) : cell \notin skipped

presetCells == {cell \in Cells(size) : isPreset(cell)}

\* variant: a target that already holds the value is cleared
setValueOnTargetsToggle(value) ==
  /\ ~effectQueued
  /\ userGrid' = withTargets(userGrid, presetCells,
                             [cell \in Cells(size) |->
                                IF value > 0 /\ userGrid[cell] # value THEN value ELSE 0])
  /\ effectQueued' = anyCalled(presetCells)
  /\ lastCall' = Call("setDigit", "void")
  /\ UNCHANGED <<codecVars, size, preset, centerNotes, cornerNotes, colorGrid, selVars, histVars,
                 suppressHistoryRef, timers>>

setValueOnTargets(value) ==
  /\ ~effectQueued
  /\ userGrid' = withTargets(userGrid, presetCells,
                             [cell \in Cells(size) |-> IF value > 0 THEN value ELSE 0])
  /\ effectQueued' = anyCalled(presetCells)
  /\ lastCall' = Call("setDigit", "void")
  /\ UNCHANGED <<codecVars, size, preset, centerNotes, cornerNotes, colorGrid, selVars, histVars,
                 suppressHistoryRef, timers>>

\* variant: only digits below 1 are rejected
toggleDigitInNoUpper(cube, digit) ==
  IF digit < 1 THEN cube
  ELSE withTargets(cube, presetCells,
                   [cell \in Cells(size) |->
                      IF digit \in cube[cell] THEN cube[cell] \ {digit}
                      ELSE cube[cell] \cup {digit}])

\* variant: the targets are toggled as a group (the digit is removed from all
\* of them if any of them has it, added to all of them otherwise)
toggleDigitInGroup(cube, digit) ==
  IF digit < 1 \/ digit > size THEN cube
  ELSE withTargets(cube, presetCells,
                   [cell \in Cells(size) |->
                      IF \E t \in Range(targetsNow) \ presetCells : digit \in cube[t]
                      THEN cube[cell] \ {digit}
                      ELSE cube[cell] \cup {digit}])

toggleDigitIn(cube, digit) ==
  IF digit < 1 \/ digit > size THEN cube
  ELSE withTargets(cube, presetCells,
                   [cell \in Cells(size) |->
                      IF digit \in cube[cell] THEN cube[cell] \ {digit}
                      ELSE cube[cell] \cup {digit}])

toggleCalled(digit) == ~(digit < 1 \/ digit > size) /\ anyCalled(presetCells)

clearDigitsIn(cube) == withTargets(cube, presetCells, [cell \in Cells(size) |-> {}])

toggleCenterNote(d) ==
  /\ ~effectQueued
  /\ centerNotes' = toggleDigitIn(centerNotes, d)
  /\ effectQueued' = toggleCalled(d)
  /\ lastCall' = [Call("toggleCenterNote", "void") EXCEPT !.arg = <<d>>]
  /\ UNCHANGED <<codecVars, size, preset, userGrid, cornerNotes, colorGrid, selVars, histVars,
                 suppressHistoryRef, timers>>

toggleCornerNote(d) ==
  /\ ~effectQueued
  /\ cornerNotes' = toggleDigitIn(cornerNotes, d)
  /\ effectQueued' = toggleCalled(d)
  /\ lastCall' = [Call("toggleCornerNote", "void") EXCEPT !.arg = <<d>>]
  /\ UNCHANGED <<codecVars, size, preset, userGrid, centerNotes, colorGrid, selVars, histVars,
                 suppressHistoryRef, timers>>

clearCenterNotes ==
  /\ ~effectQueued
  /\ centerNotes' = clearDigitsIn(centerNotes)
  /\ effectQueued' = anyCalled(presetCells)
  /\ lastCall' = Call("clearCenterNotes", "void")
  /\ UNCHANGED <<codecVars, size, preset, userGrid, cornerNotes, colorGrid, selVars, histVars,
                 suppressHistoryRef, timers>>

clearCornerNotes ==
  /\ ~effectQueued
  /\ cornerNotes' = clearDigitsIn(cornerNotes)
  /\ effectQueued' = anyCalled(presetCells)
  /\ lastCall' = Call("clearCornerNotes", "void")
  /\ UNCHANGED <<codecVars, size, preset, userGrid, centerNotes, colorGrid, selVars, histVars,
                 suppressHistoryRef, timers>>

\* list.indexOf(color) >= 0 ? list.splice(idx, 1) : list.push(color)
toggleColor(list, color) ==
  IF \E i \in 1 .. Len(list) : list[i] = color
  THEN LET idx == CHOOSE i \in 1 .. Len(list) :
                    list[i] = color /\ \A j \in 1 .. i - 1 : list[j] # color
       IN SubSeq(list, 1, idx - 1) \o SubSeq(list, idx + 1, Len(list))
  ELSE Append(list, color)

\* variant: toggles the colour on every cell of the board
annotateColorBoard(color) ==
  /\ ~effectQueued
  /\ colorGrid' = IF anyCalled({})
                  THEN [cell \in Cells(size) |-> toggleColor(colorGrid[cell], color)]
                  ELSE colorGrid
  /\ effectQueued' = anyCalled({})
  /\ lastCall' = Call("annotateColor", "void")
  /\ UNCHANGED <<codecVars, size, preset, userGrid, centerNotes, cornerNotes, selVars, histVars,
                 suppressHistoryRef, timers>>

annotateColor(color) ==
  /\ ~effectQueued
  /\ colorGrid' = withTargets(colorGrid, {},
                              [cell \in Cells(size) |-> toggleColor(colorGrid[cell], color)])
  /\ effectQueued' = anyCalled({})
  /\ lastCall' = Call("annotateColor", "void")
  /\ UNCHANGED <<codecVars, size, preset, userGrid, centerNotes, cornerNotes, selVars, histVars,
                 suppressHistoryRef, timers>>

\* variant: clearing the tags also drops the selection
annotateClearDeselect ==
  /\ ~effectQueued
  /\ colorGrid' = withTargets(colorGrid, {}, [cell \in Cells(size) |-> <<>>])
  /\ effectQueued' = anyCalled({})
  /\ lastCall' = Call("annotateClear", "void")
  /\ internalSelection' = createEmptySelection(size)
  /\ internalCurrent' = Undefined
  /\ selectionStack' = <<>>
  /\ UNCHANGED <<codecVars, size, preset, userGrid, centerNotes, cornerNotes, dragRef, histVars,
                 suppressHistoryRef, timers>>

annotateClear ==
  /\ ~effectQueued
  /\ colorGrid' = withTargets(colorGrid, {}, [cell \in Cells(size) |-> <<>>])
  /\ effectQueued' = anyCalled({})
  /\ lastCall' = Call("annotateClear", "void")
  /\ UNCHANGED <<codecVars, size, preset, userGrid, centerNotes, cornerNotes, selVars, histVars,
                 suppressHistoryRef, timers>>

\* variant: clears the target cells only
resetTargets ==
  /\ ~effectQueued
  /\ userGrid' = withTargets(userGrid, {}, [cell \in Cells(size) |-> 0])
  /\ centerNotes' = withTargets(centerNotes, {}, [cell \in Cells(size) |-> {}])
  /\ cornerNotes' = withTargets(cornerNotes, {}, [cell \in Cells(size) |-> {}])
  /\ colorGrid' = withTargets(colorGrid, {}, [cell \in Cells(size) |-> <<>>])
  /\ effectQueued' = TRUE
  /\ lastCall' = Call("reset", "void")
  /\ UNCHANGED <<codecVars, size, preset, selVars, histVars, suppressHistoryRef, timers>>

reset ==
  /\ ~effectQueued
  /\ userGrid' = createNumberGrid(size)
  /\ centerNotes' = createDigitCube(size)
  /\ cornerNotes' = createDigitCube(size)
  /\ colorGrid' = createColorGrid(size)
  /\ effectQueued' = TRUE
  /\ lastCall' = Call("reset", "void")
  /\ UNCHANGED <<codecVars, size, preset, selVars, histVars, suppressHistoryRef, timers>>

(***************************************************************************)
(* undo / redo / importState                                               *)
(***************************************************************************)
\* parts[k] of a split string (k is the 0-based index of the source);
\* reading a missing segment gives undefined, whose .length is a TypeError
segment(parts, k) == IF k + 1 <= Len(parts) THEN Ok(parts[k + 1]) ELSE Throw("TypeError")

decodeNumGridAt(parts, k, n) ==
  IF segment(parts, k).ok THEN decodeNumGrid(parts[k + 1], n) ELSE segment(parts, k)

decodeDigitCubeAt(parts, k, n) ==
  IF segment(parts, k).ok THEN decodeDigitCube(parts[k + 1], n)
  ELSE Throw("Corrupt state: empty cube payload")

decodeColorsAt(parts, k, n) ==
  IF segment(parts, k).ok THEN decodeColors(parts[k + 1], n) ELSE segment(parts, k)

\* the body shared by undo and redo once the guard has passed: restore the
\* four grids from historyRef[to] and move the cursor there
restoreFrom(op, to) ==
  LET parts  == split(historyRef[to + 1], "|", 1, <<>>)
      user   == decodeNumGridAt(parts, 3, size)
      center == decodeDigitCubeAt(parts, 4, size)
      corner == decodeDigitCubeAt(parts, 5, size)
      colors == decodeColorsAt(parts, 6, size)
      ok1    == user.ok
      ok2    == ok1 /\ center.ok
      ok3    == ok2 /\ corner.ok
      ok4    == ok3 /\ colors.ok
  IN /\ suppressHistoryRef' = suppressHistoryRef + 1
     /\ timers' = timers + 1
     /\ userGrid' = IF ok1 THEN user.val ELSE userGrid
     /\ centerNotes' = IF ok2 THEN center.val ELSE centerNotes
     /\ cornerNotes' = IF ok3 THEN corner.val ELSE cornerNotes
     /\ colorGrid' = IF ok4 THEN colors.val ELSE colorGrid
     /\ histIndexRef' = IF ok4 THEN to ELSE histIndexRef
     /\ effectQueued' = ok1
     /\ lastCall' = [Call(op, IF ok4 THEN "true"
                              ELSE IF ~ok1 THEN user.err ELSE IF ~ok2 THEN center.err
                              ELSE IF ~ok3 THEN corner.err ELSE colors.err)
                     EXCEPT !.before = IF op = "undo" /\ ok4 THEN gridVars ELSE <<>>]
     /\ UNCHANGED <<codecVars, size, preset, selVars, historyRef>>

\* variant: raises the suppress counter before the early returns
undoSuppressFirst ==
  /\ ~effectQueued
  /\ IF Len(historyRef) = 0 \/ histIndexRef <= 0
     THEN /\ lastCall' = Call("undo", "false")
          /\ suppressHistoryRef' = suppressHistoryRef + 1
          /\ UNCHANGED <<codecVars, size, preset, gridVars, selVars, histVars, timers, effectQueued>>
     ELSE restoreFrom("undo", histIndexRef - 1)

undo ==
  /\ ~effectQueued
  /\ IF Len(historyRef) = 0 \/ histIndexRef <= 0
     THEN /\ lastCall' = Call("undo", "false")
          /\ UNCHANGED <<codecVars, size, preset, gridVars, selVars, histVars, suppressHistoryRef,
                         timers, effectQueued>>
     ELSE restoreFrom("undo", histIndexRef - 1)

redo ==
  /\ ~effectQueued
  /\ IF Len(historyRef) = 0 \/ histIndexRef >= Len(historyRef) - 1
     THEN /\ lastCall' = Call("redo", "false")
          /\ UNCHANGED <<codecVars, size, preset, gridVars, selVars, histVars, suppressHistoryRef,
                         timers, effectQueued>>
     ELSE restoreFrom("redo", histIndexRef + 1)

ErrInvalid  == "Invalid state payload"
ErrSegments == "Corrupt state: missing segments"
ErrSize     == "State size does not match grid size"

\* variant: decodes the body first and compares the declared size last
importOutcomeSizeLast(encoded, n) ==
  LET parts == split(encoded, "|", 1, <<>>)
      none  == [err |-> "", entered |-> FALSE, set |-> FALSE, preset |-> <<>>, user |-> <<>>,
                center |-> <<>>, corner |-> <<>>, colors |-> <<>>]
  IN IF Len(encoded) = 0 \/ ~startsWith(encoded, SG1_HEADER)
     THEN [none EXCEPT !.err = ErrInvalid]
     ELSE IF Len(parts) < 7 THEN [none EXCEPT !.err = ErrSegments]
     ELSE LET nextPreset == decodeNumGrid(parts[3], n)
              nextUser   == decodeNumGrid(parts[4], n)
              nextCenter == decodeDigitCube(parts[5], n)
              nextCorner == decodeDigitCube(parts[6], n)
              nextColors == decodeColors(parts[7], n)
              entered    == [none EXCEPT !.entered = TRUE]
          IN IF ~nextPreset.ok THEN [entered EXCEPT !.err = nextPreset.err]
             ELSE IF ~nextUser.ok THEN [entered EXCEPT !.err = nextUser.err]
             ELSE IF ~nextCenter.ok THEN [entered EXCEPT !.err = nextCenter.err]
             ELSE IF ~nextCorner.ok THEN [entered EXCEPT !.err = nextCorner.err]
             ELSE IF ~nextColors.ok THEN [entered EXCEPT !.err = nextColors.err]
             ELSE [entered EXCEPT !.err = IF from36(parts[2]) # n THEN ErrSize ELSE ""]

\* variant: applies the decoded grids without the preset-wins loop
importOutcomeNoPresetWins(encoded, n) ==
  LET parts == split(encoded, "|", 1, <<>>)
      none  == [err |-> "", entered |-> FALSE, set |-> FALSE, preset |-> <<>>, user |-> <<>>,
                center |-> <<>>, corner |-> <<>>, colors |-> <<>>]
  IN IF Len(encoded) = 0 \/ ~startsWith(encoded, SG1_HEADER)
     THEN [none EXCEPT !.err = ErrInvalid]
     ELSE IF Len(parts) < 7 THEN [none EXCEPT !.err = ErrSegments]
     ELSE IF from36(parts[2]) # n THEN [none EXCEPT !.err = ErrSize]
     ELSE LET nextPreset == decodeNumGrid(parts[3], n)
              nextUser   == decodeNumGrid(parts[4], n)
              nextCenter == decodeDigitCube(parts[5], n)
              nextCorner == decodeDigitCube(parts[6], n)
              nextColors == decodeColors(parts[7], n)
              entered    == [none EXCEPT !.entered = TRUE]
          IN IF ~nextPreset.ok THEN [entered EXCEPT !.err = nextPreset.err]
             ELSE IF ~nextUser.ok THEN [entered EXCEPT !.err = nextUser.err]
             ELSE IF ~nextCenter.ok THEN [entered EXCEPT !.err = nextCenter.err]
             ELSE IF ~nextCorner.ok THEN [entered EXCEPT !.err = nextCorner.err]
             ELSE IF ~nextColors.ok THEN [entered EXCEPT !.err = nextColors.err]
             ELSE [err |-> "", entered |-> TRUE, set |-> TRUE,
                   preset |-> nextPreset.val, user |-> nextUser.val,
                   center |-> nextCenter.val, corner |-> nextCorner.val,
                   colors |-> nextColors.val]

\* what importState does with `encoded`: the error it throws ("" if none),
\* whether the try block was entered, and the grids it sets
importOutcome(encoded, n) ==
  LET parts == split(encoded, "|", 1, <<>>)
      none  == [err |-> "", entered |-> FALSE, set |-> FALSE, preset |-> <<>>, user |-> <<>>,
                center |-> <<>>, corner |-> <<>>, colors |-> <<>>]
  IN IF Len(encoded) = 0 \/ ~startsWith(encoded, SG1_HEADER)
     THEN [none EXCEPT !.err = ErrInvalid]
     ELSE IF Len(parts) < 7 THEN [none EXCEPT !.err = ErrSegments]
     ELSE IF from36(parts[2]) # n THEN [none EXCEPT !.err = ErrSize]
     ELSE LET nextPreset == decodeNumGrid(parts[3], n)
              nextUser   == decodeNumGrid(parts[4], n)
              nextCenter == decodeDigitCube(parts[5], n)
              nextCorner == decodeDigitCube(parts[6], n)
              nextColors == decodeColors(parts[7], n)
              entered    == [none EXCEPT !.entered = TRUE]
          IN IF ~nextPreset.ok THEN [entered EXCEPT !.err = nextPreset.err]
             ELSE IF ~nextUser.ok THEN [entered EXCEPT !.err = nextUser.err]
             ELSE IF ~nextCenter.ok THEN [entered EXCEPT !.err = nextCenter.err]
             ELSE IF ~nextCorner.ok THEN [entered EXCEPT !.err = nextCorner.err]
             ELSE IF ~nextColors.ok THEN [entered EXCEPT !.err = nextColors.err]
             ELSE \* preset wins over user/notes
                  [err |-> "", entered |-> TRUE, set |-> TRUE,
                   preset |-> nextPreset.val,
                   user   |-> [cell \in Cells(n) |->
                                 IF nextPreset.val[cell] > 0 THEN 0 ELSE nextUser.val[cell]],
                   center |-> [cell \in Cells(n) |->
                                 IF nextPreset.val[cell] > 0 THEN {} ELSE nextCenter.val[cell]],
                   corner |-> [cell \in Cells(n) |->
                                 IF nextPreset.val[cell] > 0 THEN {} ELSE nextCorner.val[cell]],
                   colors |-> nextColors.val]

\* variant: clears the user grid before the body is decoded
importStateClearFirst(encoded) ==
  \E out \in {importOutcome(encoded, size)} :
     /\ ~effectQueued
     /\ lastCall' = Call("importState", IF out.err = "" THEN "void" ELSE out.err)
     /\ suppressHistoryRef' = IF out.entered THEN suppressHistoryRef + 1 ELSE suppressHistoryRef
     /\ timers' = IF out.entered THEN timers + 1 ELSE timers
     /\ preset' = IF out.set THEN out.preset ELSE preset
     /\ userGrid' = IF out.set THEN out.user
                    ELSE IF out.entered THEN createNumberGrid(size) ELSE userGrid
     /\ centerNotes' = IF out.set THEN out.center ELSE centerNotes
     /\ cornerNotes' = IF out.set THEN out.corner ELSE cornerNotes
     /\ colorGrid' = IF out.set THEN out.colors ELSE colorGrid
     /\ effectQueued' = out.entered
     /\ UNCHANGED <<codecVars, size, selVars, histVars>>

\* variant: the release timer is set only when the decoding succeeded
importStateNoFinally(encoded) ==
  \E out \in {importOutcome(encoded, size)} :
     /\ ~effectQueued
     /\ lastCall' = Call("importState", IF out.err = "" THEN "void" ELSE out.err)
     /\ suppressHistoryRef' = IF out.entered THEN suppressHistoryRef + 1 ELSE suppressHistoryRef
     /\ timers' = IF out.set THEN timers + 1 ELSE timers
     /\ preset' = IF out.set THEN out.preset ELSE preset
     /\ userGrid' = IF out.set THEN out.user ELSE userGrid
     /\ centerNotes' = IF out.set THEN out.center ELSE centerNotes
     /\ cornerNotes' = IF out.set THEN out.corner ELSE cornerNotes
     /\ colorGrid' = IF out.set THEN out.colors ELSE colorGrid
     /\ effectQueued' = out.set
     /\ UNCHANGED <<codecVars, size, selVars, histVars>>

importState(encoded) ==
  \E out \in {importOutcome(encoded, size)} :
     /\ ~effectQueued
     /\ lastCall' = Call("importState", IF out.err = "" THEN "void" ELSE out.err)
     /\ suppressHistoryRef' = IF out.entered THEN suppressHistoryRef + 1 ELSE suppressHistoryRef
     /\ timers' = IF out.entered THEN timers + 1 ELSE timers
     /\ preset' = IF out.set THEN out.preset ELSE preset
     /\ userGrid' = IF out.set THEN out.user ELSE userGrid
     /\ centerNotes' = IF out.set THEN out.center ELSE centerNotes
     /\ cornerNotes' = IF out.set THEN out.corner ELSE cornerNotes
     /\ colorGrid' = IF out.set THEN out.colors ELSE colorGrid
     /\ effectQueued' = out.set
     /\ UNCHANGED <<codecVars, size, selVars, histVars>>

(***************************************************************************)
(* Pointer gestures and keyboard                                           *)
(***************************************************************************)
\* useEffect on [selection]: runs after a commit that gave `selection` a new
\* identity; with no cell selected it clears current and the stack
afterSelectionCommit(sel, cur, stack) ==
  /\ internalSelection' = sel
  /\ internalCurrent' = IF hasAnySelected(sel) THEN cur ELSE Undefined
  /\ selectionStack' = IF hasAnySelected(sel) THEN stack ELSE <<>>

key(cell) == cell[1] * size + cell[2]

\* variant: shift is tested before ctrl/meta
onPointerDownGridShiftFirst(cell, ctrl, shift) ==
  LET base == IF ctrl THEN selection ELSE createEmptySelection(size)
      mode == IF shift THEN "rect"
              ELSE IF ctrl THEN (IF base[cell] THEN "paint-erase" ELSE "paint-add")
              ELSE "paint-add"
      working == IF mode = "rect" THEN buildSingleSelection(size, cell[1], cell[2])
                 ELSE [base EXCEPT ![cell] = (mode = "paint-add")]
      prevIdx == indexInStack(selectionStack, cell)
      before  == removeFromStack(selectionStack, cell)
      target  == IF prevIdx > 0 THEN selectionStack[prevIdx]
                 ELSE IF Len(before) > 0 THEN before[Len(before)] ELSE Undefined
  IN /\ ~effectQueued
     /\ dragRef' = [mode |-> mode, start |-> cell, working |-> working,
                    visited |-> {key(cell)}, last |-> cell, at |-> cell]
     /\ afterSelectionCommit(
          working,
          IF mode = "paint-erase" THEN target ELSE cell,
          IF mode = "rect" THEN <<cell>>
          ELSE IF mode = "paint-add"
               THEN (IF ctrl THEN pushIfAbsent(selectionStack, cell) ELSE <<cell>>)
               ELSE removeFromStack(selectionStack, cell))
     /\ lastCall' = Call("pointerdown", mode)
     /\ UNCHANGED <<codecVars, size, preset, gridVars, histVars, suppressHistoryRef, timers, effectQueued>>

onPointerDownGrid(cell, ctrl, shift) ==
  LET base == IF ctrl THEN selection ELSE createEmptySelection(size)
      mode == IF ctrl THEN (IF base[cell] THEN "paint-erase" ELSE "paint-add")
              ELSE IF shift THEN "rect" ELSE "paint-add"
      working == IF mode = "rect" THEN buildSingleSelection(size, cell[1], cell[2])
                 ELSE [base EXCEPT ![cell] = (mode = "paint-add")]
      prevIdx == indexInStack(selectionStack, cell)
      before  == removeFromStack(selectionStack, cell)
      target  == IF prevIdx > 0 THEN selectionStack[prevIdx]
                 ELSE IF Len(before) > 0 THEN before[Len(before)] ELSE Undefined
  IN /\ ~effectQueued
     /\ dragRef' = [mode |-> mode, start |-> cell, working |-> working,
                    visited |-> {key(cell)}, last |-> cell, at |-> cell]
     /\ afterSelectionCommit(
          working,
          IF mode = "paint-erase" THEN target ELSE cell,
          IF mode = "rect" THEN <<cell>>
          ELSE IF mode = "paint-add"
               THEN (IF ctrl THEN pushIfAbsent(selectionStack, cell) ELSE <<cell>>)
               ELSE removeFromStack(selectionStack, cell))
     /\ lastCall' = Call("pointerdown", mode)
     /\ UNCHANGED <<codecVars, size, preset, gridVars, histVars, suppressHistoryRef, timers, effectQueued>>

\* variant: a rect move adds the rectangle to the working selection
onPointerMoveGridRectAdds(cell) ==
  /\ ~effectQueued
  /\ dragRef.mode # "none"
  /\ lastCall' = Call("pointermove", dragRef.mode)
  /\ IF dragRef.mode = "rect"
     THEN LET r0 == Min2(dragRef.start[1], cell[1])
              r1 == Max2(dragRef.start[1], cell[1])
              c0 == Min2(dragRef.start[2], cell[2])
              c1 == Max2(dragRef.start[2], cell[2])
              working == [x \in Cells(size) |->
                            \/ dragRef.working[x]
                            \/ x[1] >= r0 /\ x[1] <= r1 /\ x[2] >= c0 /\ x[2] <= c1]
          IN /\ dragRef' = [dragRef EXCEPT !.working = working, !.last = cell, !.at = cell]
             /\ afterSelectionCommit(working, current, stackFromMatrix(working, size))
     ELSE IF key(cell) \in dragRef.visited
     THEN /\ dragRef' = [dragRef EXCEPT !.at = cell]
          /\ UNCHANGED <<internalSelection, internalCurrent, selectionStack>>
     ELSE IF dragRef.mode = "paint-add"
     THEN LET working == [dragRef.working EXCEPT ![cell] = TRUE]
          IN /\ dragRef' = [dragRef EXCEPT !.visited = @ \cup {key(cell)},
                                           !.working = working, !.last = cell, !.at = cell]
             /\ afterSelectionCommit(working, current, pushIfAbsent(selectionStack, cell))
     ELSE IF dragRef.working[cell]
     THEN LET working == [dragRef.working EXCEPT ![cell] = FALSE]
              updated == removeFromStack(removeFromStack(selectionStack, cell), cell)
              erasesCurrent == current # Undefined /\ sameCell(current, cell)
          IN /\ dragRef' = [dragRef EXCEPT !.visited = @ \cup {key(cell)},
                                           !.working = working, !.last = cell, !.at = cell]
             /\ afterSelectionCommit(
                  working,
                  IF erasesCurrent
                  THEN (IF Len(updated) > 0 THEN updated[Len(updated)] ELSE Undefined)
                  ELSE current,
                  updated)
     ELSE /\ dragRef' = [dragRef EXCEPT !.visited = @ \cup {key(cell)}, !.at = cell]
          /\ UNCHANGED <<internalSelection, internalCurrent, selectionStack>>
  /\ UNCHANGED <<codecVars, size, preset, gridVars, histVars, suppressHistoryRef, timers, effectQueued>>

onPointerMoveGrid(cell) ==
  /\ ~effectQueued
  /\ dragRef.mode # "none"
  /\ lastCall' = Call("pointermove", dragRef.mode)
  /\ IF dragRef.mode = "rect"
     THEN LET r0 == Min2(dragRef.start[1], cell[1])
              r1 == Max2(dragRef.start[1], cell[1])
              c0 == Min2(dragRef.start[2], cell[2])
              c1 == Max2(dragRef.start[2], cell[2])
              working == [x \in Cells(size) |->
                            x[1] >= r0 /\ x[1] <= r1 /\ x[2] >= c0 /\ x[2] <= c1]
          IN /\ dragRef' = [dragRef EXCEPT !.working = working, !.last = cell, !.at = cell]
             /\ afterSelectionCommit(working, current, stackFromMatrix(working, size))
     ELSE IF key(cell) \in dragRef.visited
     THEN /\ dragRef' = [dragRef EXCEPT !.at = cell]
          /\ UNCHANGED <<internalSelection, internalCurrent, selectionStack>>
     ELSE IF dragRef.mode = "paint-add"
     THEN LET working == [dragRef.working EXCEPT ![cell] = TRUE]
          IN /\ dragRef' = [dragRef EXCEPT !.visited = @ \cup {key(cell)},
                                           !.working = working, !.last = cell, !.at = cell]
             /\ afterSelectionCommit(working, current, pushIfAbsent(selectionStack, cell))
     ELSE IF dragRef.working[cell]
     THEN LET working == [dragRef.working EXCEPT ![cell] = FALSE]
              updated == removeFromStack(removeFromStack(selectionStack, cell), cell)
              erasesCurrent == current # Undefined /\ sameCell(current, cell)
          IN /\ dragRef' = [dragRef EXCEPT !.visited = @ \cup {key(cell)},
                                           !.working = working, !.last = cell, !.at = cell]
             /\ afterSelectionCommit(
                  working,
                  IF erasesCurrent
                  THEN (IF Len(updated) > 0 THEN updated[Len(updated)] ELSE Undefined)
                  ELSE current,
                  updated)
     ELSE /\ dragRef' = [dragRef EXCEPT !.visited = @ \cup {key(cell)}, !.at = cell]
          /\ UNCHANGED <<internalSelection, internalCurrent, selectionStack>>
  /\ UNCHANGED <<codecVars, size, preset, gridVars, histVars, suppressHistoryRef, timers, effectQueued>>

\* the selection keeps its identity, so the emptiness effect does not run
finishDrag ==
  IF dragRef.mode = "none" THEN UNCHANGED selVars
  ELSE /\ internalCurrent' = IF dragRef.mode \in {"rect", "paint-add"}
                             THEN (IF dragRef.last # Undefined THEN dragRef.last
                                   ELSE dragRef.start)
                             ELSE internalCurrent
       /\ dragRef' = NullDrag
       /\ UNCHANGED <<internalSelection, selectionStack>>

onPointerUpGrid ==
  /\ ~effectQueued
  /\ finishDrag
  /\ lastCall' = Call("pointerup", "void")
  /\ UNCHANGED <<codecVars, size, preset, gridVars, histVars, suppressHistoryRef, timers, effectQueued>>

onPointerLeaveGrid ==
  /\ ~effectQueued
  /\ IF ~draggingRef THEN UNCHANGED selVars ELSE finishDrag
  /\ lastCall' = Call("pointerleave", "void")
  /\ UNCHANGED <<codecVars, size, preset, gridVars, histVars, suppressHistoryRef, timers, effectQueued>>

moveCurrent(dr, dc) ==
  LET base == IF current # Undefined THEN current
              ELSE IF hasAnySelected(selection) THEN stackFromMatrix(selection, size)[1]
              ELSE <<0, 0>>
      next == neighbor(base, dr, dc, size)
  IN /\ ~effectQueued
     /\ afterSelectionCommit(buildSingleSelection(size, next[1], next[2]), next, <<next>>)
     /\ lastCall' = Call("arrow", "void")
     /\ UNCHANGED <<codecVars, size, preset, gridVars, dragRef, histVars, suppressHistoryRef, timers,
                    effectQueued>>

onKeyDownEscape ==
  /\ ~effectQueued
  /\ afterSelectionCommit(createEmptySelection(size), Undefined, <<>>)
  /\ lastCall' = Call("escape", "void")
  /\ UNCHANGED <<codecVars, size, preset, gridVars, dragRef, histVars, suppressHistoryRef, timers,
                 effectQueued>>

(***************************************************************************)
(* Inputs                                                                  *)
(***************************************************************************)
MaxCursor == 1      \* Spec offers edits and imports while the cursor is below this
MaxTimers == 1      \* undo/redo/import are offered while fewer timers are pending
MaxEdits == 1       \* log length up to which EditSpec offers edits

BoardSize == 2      \* the `size` prop of the instances explored

DigitArgs == {0, 1, 3}

ColorArgs == {"red", "blue"}

ClickCells == {<<0, 0>>, <<0, 1>>}

Locked00(n) == [createNumberGrid(n) EXCEPT ![<<0, 0>>] = 1]

PresetInputs(n) == {createNumberGrid(n), Locked00(n)}

\* payloads offered to importState on a board of size n: two exports of
\* other instances and damaged variants of the second
ExportEmpty(n) ==
  buildPayload(n, createNumberGrid(n), createNumberGrid(n), createDigitCube(n),
               createDigitCube(n), createColorGrid(n)).val

ExportFull(n) ==
  buildPayload(n, Locked00(n),
               [cell \in Cells(n) |-> IF cell[1] = 0 THEN 2 ELSE 0],
               [cell \in Cells(n) |-> IF cell[1] = 0 THEN {1} ELSE {}],
               [cell \in Cells(n) |-> IF cell = <<0, 0>> THEN {1} ELSE {}],
               [cell \in Cells(n) |-> IF cell = <<0, 0>> THEN <<"red">> ELSE <<>>]).val

withSegment(payload, k, seg) == join([split(payload, "|", 1, <<>>) EXCEPT ![k + 1] = seg], "|", 1)

GoodPayloads(n) == {ExportEmpty(n), ExportFull(n)}

BadPayloads(n) ==
  LET full == ExportFull(n)
  IN { <<>>,
       <<"X">> \o full,
       join(SubSeq(split(full, "|", 1, <<>>), 1, 6), "|", 1),
       withSegment(full, 1, to36(n + 1)),
       withSegment(withSegment(full, 1, to36(n + 1)), 2, <<"0">>),
       withSegment(full, 2, <<"0">>),
       withSegment(full, 3, [k \in 1 .. n * n + 1 |-> "0"]),
       withSegment(full, 4, <<>>),
       withSegment(full, 4, <<"0">> \o [k \in 1 .. n * n |-> "0"]),
       withSegment(full, 5, <<"1", "0">>),
       withSegment(full, 6, <<"0">>) }

ImportInputs(n) == GoodPayloads(n) \cup BadPayloads(n)

(***************************************************************************)
(* Initial state: the component after mount.  The mount effects record the *)
(* empty board, clear the log (size effect) and record it again.           *)
(***************************************************************************)
Component(n, pre) ==
  /\ size = n
  /\ preset = pre
  /\ userGrid = createNumberGrid(n)
  /\ centerNotes = createDigitCube(n)
  /\ cornerNotes = createDigitCube(n)
  /\ colorGrid = createColorGrid(n)
  /\ internalSelection = createEmptySelection(n)
  /\ internalCurrent = Undefined
  /\ selectionStack = <<>>
  /\ dragRef = NullDrag
  /\ historyRef = <<buildPayload(n, pre, createNumberGrid(n), createDigitCube(n),
                                 createDigitCube(n), createColorGrid(n)).val>>
  /\ histIndexRef = 0
  /\ suppressHistoryRef = 0
  /\ timers = 0
  /\ effectQueued = FALSE
  /\ lastCall = [op |-> "mount", result |-> "void", trail |-> "", prior |-> "",
                 arg |-> <<>>, before |-> <<>>]

\* no stateCodec function is being called directly
Mounted(n, pre) ==
  /\ Component(n, pre)
  /\ codecIn = Undefined
  /\ codecOut = Undefined

Init == \E pre \in PresetInputs(BoardSize) : Mounted(BoardSize, pre)

(***************************************************************************)
(* EditSpec: the editing operations on click selections of two cells, one  *)
(* of them locked in one of the two initial boards                         *)
(***************************************************************************)
EditRoom == Len(historyRef) <= MaxEdits

Click == \E cell \in ClickCells, ctrl \in BOOLEAN : onPointerDownGrid(cell, ctrl, FALSE)

SetDigit == EditRoom /\ \E v \in DigitArgs : setValueOnTargets(v)

ToggleCenter == EditRoom /\ \E d \in DigitArgs : toggleCenterNote(d)

ToggleCorner == EditRoom /\ \E d \in DigitArgs : toggleCornerNote(d)

ClearCenter == EditRoom /\ clearCenterNotes

ClearCorner == EditRoom /\ clearCornerNotes

AnnotateColor == EditRoom /\ \E color \in ColorArgs : annotateColor(color)

AnnotateClear == EditRoom /\ annotateClear

Reset == EditRoom /\ reset

EditNext ==
  \/ Click
  \/ onPointerUpGrid
  \/ onKeyDownEscape
  \/ SetDigit
  \/ ToggleCenter
  \/ ToggleCorner
  \/ ClearCenter
  \/ ClearCorner
  \/ AnnotateColor
  \/ AnnotateClear
  \/ Reset
  \/ HistoryEffect

EditSpec == Init /\ [][EditNext]_vars

TypeOK ==
  /\ histIndexRef \in -1 .. Len(historyRef) - 1
  /\ suppressHistoryRef >= 0

(***************************************************************************)
(* Properties of the editing operations (EditSpec)                         *)
(***************************************************************************)
\* the cells an operation is aimed at, read off the state
Targeted(cell) ==
  \/ internalSelection[cell]
  \/ (\A other \in Cells(size) : ~internalSelection[other]) /\ internalCurrent = cell

Locked(cell) == preset[cell] > 0

AnnotateStep == (\E color \in ColorArgs : annotateColor(color)) \/ annotateClear

DigitStep ==
  \/ \E v \in DigitArgs : setValueOnTargets(v)
  \/ \E d \in DigitArgs : toggleCenterNote(d) \/ toggleCornerNote(d)
  \/ clearCenterNotes
  \/ clearCornerNotes

\* C2: setDigit, toggleCenterNote, toggleCornerNote, clearCenterNotes and
\* clearCornerNotes never change UserGrid or a NoteCube at a locked cell.
C2_LockedDigitsKept ==
  [][DigitStep =>
       \A cell \in Cells(size) :
         Locked(cell) => /\ userGrid'[cell] = userGrid[cell]
                         /\ centerNotes'[cell] = centerNotes[cell]
                         /\ cornerNotes'[cell] = cornerNotes[cell]]_vars

\* setDigit ran on a selection holding a locked and an unlocked cell and
\* wrote the unlocked one only
C2_Witness ==
  /\ lastCall.op = "setDigit"
  /\ \E a, b \in Cells(size) :
       /\ Targeted(a) /\ Locked(a) /\ userGrid[a] = 0
       /\ Targeted(b) /\ ~Locked(b) /\ userGrid[b] > 0

(***************************************************************************)
(* SelSpec: pointer gestures and keyboard navigation                       *)
(***************************************************************************)
PointerCells == {<<0, 0>>, <<0, 1>>, <<1, 1>>}

Arrows == {<<-1, 0>>, <<1, 0>>, <<0, -1>>, <<0, 1>>}

PointerDown ==
  \E cell \in PointerCells, ctrl \in BOOLEAN, shift \in BOOLEAN :
    onPointerDownGrid(cell, ctrl, shift)

PointerMove == \E cell \in PointerCells : onPointerMoveGrid(cell)

ArrowKey == \E d \in Arrows : moveCurrent(d[1], d[2])

SelInit == Mounted(BoardSize, createNumberGrid(BoardSize))

SelNext ==
  \/ PointerDown
  \/ PointerMove
  \/ onPointerUpGrid
  \/ onPointerLeaveGrid
  \/ ArrowKey
  \/ onKeyDownEscape

SelSpec == SelInit /\ [][SelNext]_vars

\* C3: whenever no cell is selected, CurrentCell is undefined and
\* SelectionStack is empty.
C3_EmptySelectionClearsCurrent ==
  ~hasAnySelected(internalSelection) =>
    internalCurrent = Undefined /\ selectionStack = <<>>

(***************************************************************************)
(* Spec: undo, redo and import around setDigit on one cell, with the       *)
(* history effect and the release timers in every order                    *)
(***************************************************************************)
HistCells == {<<0, 1>>}

HistDigits == {0, 1}

HistColors == {"red"}

HistPayloads(n) == {ExportFull(n), withSegment(ExportFull(n), 6, <<"0">>)}

HistRoom == histIndexRef < MaxCursor

HistClick == \E cell \in HistCells : onPointerDownGrid(cell, FALSE, FALSE)

HistSetDigit == HistRoom /\ \E v \in HistDigits : setValueOnTargets(v)

Undo == timers < MaxTimers /\ undo

Redo == timers < MaxTimers /\ redo

Import ==
  /\ timers < MaxTimers
  /\ HistRoom
  /\ \E encoded \in HistPayloads(size) : importState(encoded)

Next ==
  \/ HistClick
  \/ HistSetDigit
  \/ Undo
  \/ Redo
  \/ Import
  \/ HistoryEffect
  \/ ReleaseTimer

Spec == SelInit /\ [][Next]_vars

(***************************************************************************)
(* RedoSpec: every kind of editing operation on one cell, with undo and    *)
(* redo                                                                    *)
(***************************************************************************)
HistToggleCenter == HistRoom /\ toggleCenterNote(1)

HistClearCenter == HistRoom /\ clearCenterNotes

HistAnnotateColor == HistRoom /\ \E color \in HistColors : annotateColor(color)

HistAnnotateClear == HistRoom /\ annotateClear

HistReset == HistRoom /\ reset

RedoNext ==
  \/ HistClick
  \/ HistSetDigit
  \/ HistToggleCenter
  \/ HistClearCenter
  \/ HistAnnotateColor
  \/ HistAnnotateClear
  \/ HistReset
  \/ Undo
  \/ Redo
  \/ HistoryEffect
  \/ ReleaseTimer

RedoSpec == SelInit /\ [][RedoNext]_vars

(***************************************************************************)
(* Properties of the history (Spec, RedoSpec)                              *)
(***************************************************************************)
\* C4 as stated: after a successful undo() followed by an editing operation
\* with a non-empty target list (or reset), with no undo/redo/import in
\* between, redo() returns false.
C4_RedoFailsAfterUndoThenEdit ==
  [][redo /\ lastCall.trail \in {"undo-edit", "undo-recorded"} =>
       lastCall'.result = "false"]_vars

ImportStep == \E encoded \in HistPayloads(size) : importState(encoded)

\* C5: a successful importState leaves the log and the cursor unchanged,
\* both in the call itself and when the history effect of the imported
\* grids runs, before or after the release timer.
C5_ImportKeepsHistory ==
  [][(\/ ImportStep /\ lastCall'.result = "void"
      \/ HistoryEffect /\ lastCall.op = "importState") => UNCHANGED histVars]_vars

\* C6: a successful undo()/redo() leaves the log contents unchanged and moves
\* the cursor by exactly one, and the history effect of the restored grids
\* changes neither, before or after the release timer.
C6_UndoRedoKeepLog ==
  [][/\ undo /\ lastCall'.result = "true" =>
          historyRef' = historyRef /\ histIndexRef' = histIndexRef - 1
     /\ redo /\ lastCall'.result = "true" =>
          historyRef' = historyRef /\ histIndexRef' = histIndexRef + 1
     /\ HistoryEffect /\ lastCall.op \in {"undo", "redo"} => UNCHANGED histVars]_vars

\* C7: undo() returns true iff the cursor is > 0, redo() returns true iff the
\* cursor is < length-1, and a call that returns false changes no grid, not
\* the log, the cursor or the suppress counter.
C7_UndoRedoResult ==
  [][/\ undo => /\ lastCall'.result \in {"true", "false"}
                /\ lastCall'.result = "true" <=> histIndexRef > 0
     /\ redo => /\ lastCall'.result \in {"true", "false"}
                /\ lastCall'.result = "true" <=> histIndexRef < Len(historyRef) - 1
     /\ (undo \/ redo) /\ lastCall'.result = "false" =>
          UNCHANGED <<preset, gridVars, histVars, suppressHistoryRef, timers, effectQueued>>]_vars

\* undo was refused at cursor 0 of a log that holds a redo tail
C7_Witness ==
  /\ lastCall.op = "undo"
  /\ lastCall.result = "false"
  /\ histIndexRef = 0
  /\ Len(historyRef) > 1

(***************************************************************************)
(* TrimSpec: setDigit toggling one cell until the log is full, with undo   *)
(* at most MaxUndoDepth entries below the end of the log                   *)
(***************************************************************************)
TrimSize == 1

MaxUndoDepth == 1

TrimClick == onPointerDownGrid(<<0, 0>>, FALSE, FALSE)

TrimSetDigit == \E v \in HistDigits : setValueOnTargets(v)

TrimUndo ==
  /\ timers < MaxTimers
  /\ Len(historyRef) - 1 - histIndexRef < MaxUndoDepth
  /\ undo

TrimInit == Mounted(TrimSize, createNumberGrid(TrimSize))

TrimNext ==
  \/ TrimClick
  \/ TrimSetDigit
  \/ TrimUndo
  \/ HistoryEffect
  \/ ReleaseTimer

TrimSpec == TrimInit /\ [][TrimNext]_vars

\* the history effect runs unsuppressed on grids that differ from the entry
\* at the cursor
Recording ==
  /\ HistoryEffect
  /\ suppressHistoryRef = 0
  /\ snapshot.ok
  /\ snapshot.val # historyRef[histIndexRef + 1]

\* C8: the log never holds more than 200 snapshots; a recording that would
\* make it 201 drops the oldest entry from the front, and after every
\* recording the cursor is the last index and points at the snapshot just
\* recorded.
C8_LogCappedAt200 ==
  [][/\ Len(historyRef') <= 200
     /\ Recording =>
          /\ histIndexRef' = Len(historyRef') - 1
          /\ historyRef'[histIndexRef' + 1] = snapshot.val
          /\ (Len(historyRef) = 200 /\ histIndexRef = 199) =>
                historyRef' = Append(Tail(historyRef), snapshot.val)]_vars

\* the log is full and the baseline recorded at mount has been dropped
C8_Witness ==
  /\ Len(historyRef) = 200
  /\ histIndexRef = 199
  /\ historyRef[1] # ExportEmpty(size)

(***************************************************************************)
(* ImportSpec: importState on intact and damaged payloads, on boards with  *)
(* and without a locked cell, between setDigit calls                       *)
(***************************************************************************)
ImportAny ==
  /\ timers < MaxTimers
  /\ HistRoom
  /\ \E encoded \in ImportInputs(size) : importState(encoded)

ImportNext ==
  \/ HistClick
  \/ HistSetDigit
  \/ ImportAny
  \/ HistoryEffect
  \/ ReleaseTimer

ImportSpec == Init /\ [][ImportNext]_vars

\* the payload passes the header and segment-count checks of importState
Framed(encoded) ==
  /\ Len(encoded) > 0
  /\ startsWith(encoded, SG1_HEADER)
  /\ Len(split(encoded, "|", 1, <<>>)) >= 7

declaredSize(encoded) == from36(split(encoded, "|", 1, <<>>)[2])

\* C9: for a payload with the header and at least 7 segments, importState
\* throws the size-mismatch error whenever the declared size differs from the
\* board size, without entering the decoding block (suppress counter and
\* release timers untouched), also when a body segment would not decode.
C9_SizeMismatchThrowsFirst ==
  [][\A encoded \in ImportInputs(size) :
       (importState(encoded) /\ Framed(encoded) /\ declaredSize(encoded) # size) =>
          /\ lastCall'.result = ErrSize
          /\ UNCHANGED <<preset, gridVars, suppressHistoryRef, timers>>]_vars

\* importState has thrown the size-mismatch error on a board holding a digit
C9_Witness ==
  /\ lastCall.op = "importState"
  /\ lastCall.result = ErrSize
  /\ \E cell \in Cells(size) : userGrid[cell] > 0

\* C10: whenever importState raises, PresetGrid, UserGrid, both note cubes,
\* ColorGrid, the log and the cursor are as before the call, and no grid
\* setter was called.
C10_ImportAllOrNothing ==
  [][(ImportAny /\ lastCall'.result # "void") =>
        /\ UNCHANGED <<preset, gridVars, histVars>>
        /\ effectQueued' = FALSE]_vars

\* importState has raised a decode error from inside the decoding block on a
\* board holding a digit
C10_Witness ==
  /\ lastCall.op = "importState"
  /\ lastCall.result \notin {"void", ErrInvalid, ErrSegments, ErrSize}
  /\ suppressHistoryRef > 0
  /\ \E cell \in Cells(size) : userGrid[cell] > 0

(***************************************************************************)
(* GarbleSpec: importState on payloads holding a character that is not a   *)
(* base-36 digit in the size, preset or user segment                       *)
(***************************************************************************)
NonDigit == "*"

GarbledPayloads(n) ==
  LET full == ExportFull(n)
  IN { withSegment(full, 1, Append(to36(n), NonDigit)),
       withSegment(full, 2, <<NonDigit>> \o [k \in 1 .. n * n - 1 |-> "0"]),
       withSegment(full, 3, [k \in 1 .. n * n - 1 |-> "0"] \o <<NonDigit>>) }

ImportGarbled ==
  /\ timers < MaxTimers
  /\ HistRoom
  /\ \E encoded \in GarbledPayloads(size) \cup {ExportEmpty(size)} : importState(encoded)

GarbleNext ==
  \/ HistClick
  \/ HistSetDigit
  \/ ImportGarbled
  \/ HistoryEffect
  \/ ReleaseTimer

GarbleSpec == Init /\ [][GarbleNext]_vars

\* C11: importState raises and applies nothing for a payload whose size,
\* preset or user segment holds a character that is not a base-36 digit.
C11_NonDigitRejected ==
  [][\A encoded \in GarbledPayloads(size) :
       importState(encoded) =>
         /\ lastCall'.result # "void"
         /\ UNCHANGED <<preset, gridVars>>]_vars

(***************************************************************************)
(* ColorsSpec: decodeColors called on every colour segment of at most      *)
(* MaxSegLen characters, for boards of 1 and 4 cells                       *)
(***************************************************************************)
MaxSegLen == 4

SegChars == {"0", "1", "2", "r", "b"}

Strings(alphabet, len) == UNION {[1 .. k -> alphabet] : k \in 0 .. len}

ColorsSizes == {1, 2}

ColorsInputs ==
  [fn : {"decodeColors"}, s : Strings(SegChars, MaxSegLen), size : ColorsSizes]

componentVars ==
  <<size, preset, userGrid, centerNotes, cornerNotes, colorGrid, internalSelection,
    internalCurrent, selectionStack, dragRef, historyRef, histIndexRef,
    suppressHistoryRef, timers, effectQueued, lastCall>>

ColorsInit ==
  /\ Component(1, createNumberGrid(1))
  /\ codecIn \in ColorsInputs
  /\ codecOut = Undefined

DecodeColorsCall ==
  /\ codecOut = Undefined
  /\ codecIn.fn = "decodeColors"
  /\ codecOut' = decodeColors(codecIn.s, codecIn.size)
  /\ UNCHANGED <<codecIn, componentVars>>

ColorsNext == DecodeColorsCall

ColorsSpec == ColorsInit /\ [][ColorsNext]_vars

ErrTruncated == "Corrupt state: truncated colors segment"

\* the first `cells` per-cell entries read from offset i are complete: each
\* has its length character and as many characters after it as it declares
RECURSIVE EntriesComplete(_, _, _)
EntriesComplete(s, cells, i) ==
  \/ cells = 0
  \/ /\ i < Len(s)
     /\ i + 1 + from36(<<s[i + 1]>>) <= Len(s)
     /\ EntriesComplete(s, cells - 1, i + 1 + from36(<<s[i + 1]>>))

\* C12: decodeColors raises the truncated-colors error whenever the segment
\* ends before all N*N per-cell entries are complete, the last cell included.
C12_TruncatedColorsRaise ==
  (codecOut # Undefined /\ codecIn.fn = "decodeColors") =>
     (~EntriesComplete(codecIn.s, codecIn.size * codecIn.size, 0) =>
        ~codecOut.ok /\ codecOut.err = ErrTruncated)

(***************************************************************************)
(* RoundTripSpec: encode followed by decode of number grids, note cubes    *)
(* and colour grids for the board sizes 4, 9 and 16.  The grids are drawn  *)
(* from families indexed by a seed: the value of a cell depends on its     *)
(* position and the seed, so that over the seeds every cell takes every    *)
(* value 0..35, every list length 0..35 and each colour.                   *)
(***************************************************************************)
MaxSeed == 35

RoundTripSizes == {4, 9, 16}

cellIndex(cell, n) == cell[1] * n + cell[2]

ColorOrder ==
  <<"red", "orange", "yellow", "green", "blue", "cyan", "violet", "pink", "transparent">>

NumGridOf(n, seed) == [cell \in Cells(n) |-> (cellIndex(cell, n) + seed) % 36]

DigitCubeOf(n, seed) ==
  [cell \in Cells(n) |->
     LET mask == (cellIndex(cell, n) * 257 + seed * 1821) % Pow2(n)
     IN {d \in 1 .. n : (mask \div Pow2(d - 1)) % 2 = 1}]

ColorGridOf(n, seed) ==
  [cell \in Cells(n) |->
     [j \in 1 .. (cellIndex(cell, n) + seed) % 36 |->
        ColorOrder[((cellIndex(cell, n) + j + seed) % 9) + 1]]]

NumGridInputs ==
  {[fn |-> "numGrid", size |-> n, grid |-> NumGridOf(n, seed)] :
     n \in RoundTripSizes, seed \in 0 .. MaxSeed}

DigitCubeInputs ==
  {[fn |-> "digitCube", size |-> n, grid |-> DigitCubeOf(n, seed)] :
     n \in RoundTripSizes, seed \in 0 .. MaxSeed}

ColorGridInputs ==
  {[fn |-> "colors", size |-> n, grid |-> ColorGridOf(n, seed)] :
     n \in RoundTripSizes, seed \in 0 .. MaxSeed}

RoundTripInit ==
  /\ Component(1, createNumberGrid(1))
  /\ \/ codecIn \in NumGridInputs
     \/ codecIn \in DigitCubeInputs
     \/ codecIn \in ColorGridInputs
  /\ codecOut = Undefined

\* decodeNumGrid(encodeNumGrid(g))
RoundTripNumGrid ==
  /\ codecOut = Undefined
  /\ codecIn.fn = "numGrid"
  /\ codecOut' = LET enc == encodeNumGrid(codecIn.grid, codecIn.size)
                 IN IF enc.ok THEN decodeNumGrid(enc.val, codecIn.size) ELSE enc
  /\ UNCHANGED <<codecIn, componentVars>>

\* decodeDigitCube(to36(width) + data) as buildPayload writes the segment
RoundTripDigitCube ==
  /\ codecOut = Undefined
  /\ codecIn.fn = "digitCube"
  /\ codecOut' = LET enc == encodeDigitCube(codecIn.grid, codecIn.size)
                 IN decodeDigitCube(to36(enc.width) \o enc.data, codecIn.size)
  /\ UNCHANGED <<codecIn, componentVars>>

\* decodeColors(encodeColors(k))
RoundTripColors ==
  /\ codecOut = Undefined
  /\ codecIn.fn = "colors"
  /\ codecOut' = LET enc == encodeColors(codecIn.grid, codecIn.size)
                 IN IF enc.ok THEN decodeColors(enc.val, codecIn.size) ELSE enc
  /\ UNCHANGED <<codecIn, componentVars>>

RoundTripNext ==
  \/ RoundTripNumGrid
  \/ RoundTripDigitCube
  \/ RoundTripColors

RoundTripSpec == RoundTripInit /\ [][RoundTripNext]_vars

\* C13: for N in {4, 9, 16}, decoding the encoding of a number grid with
\* values 0..35, of a note cube with digit sets within 1..N and of a colour
\* grid with lists of known colours shorter than 36 gives the grid back.
C13_CodecRoundTrip ==
  (codecOut # Undefined /\ codecIn.fn \in {"numGrid", "digitCube", "colors"}) =>
     codecOut = Ok(codecIn.grid)

\* a 16x16 note cube holding the digit 16 and a full set has been decoded
C13_Witness ==
  /\ codecOut # Undefined
  /\ codecIn.fn = "digitCube"
  /\ codecIn.size = 16
  /\ codecOut.ok
  /\ \E cell \in Cells(16) : 16 \in codecOut.val[cell]
  /\ \E cell \in Cells(16) : Cardinality(codecOut.val[cell]) >= 9

(***************************************************************************)
(* ExportSpec: setDigit on cell (0,0), import of a payload that locks that *)
(* cell, undo and redo, ended by exportState into a fresh instance of the  *)
(* same size                                                               *)
(***************************************************************************)
NotExported == codecOut = Undefined

\* exportState() of this instance handed to importState of a fresh one
ExportToFresh ==
  /\ NotExported
  /\ ~effectQueued
  /\ codecIn' = [fn |-> "exportState", payload |-> snapshot]
  /\ codecOut' = IF snapshot.ok THEN importOutcome(snapshot.val, size)
                 ELSE [err |-> snapshot.err, entered |-> FALSE, set |-> FALSE,
                       preset |-> <<>>, user |-> <<>>, center |-> <<>>,
                       corner |-> <<>>, colors |-> <<>>]
  /\ UNCHANGED componentVars

ExpClick == NotExported /\ onPointerDownGrid(<<0, 0>>, FALSE, FALSE)

ExpSetDigit == NotExported /\ HistSetDigit

ExpToggleCenter == NotExported /\ HistToggleCenter

ExpAnnotateColor == NotExported /\ HistAnnotateColor

ExpUndo == NotExported /\ Undo

ExpRedo == NotExported /\ Redo

ExpImport == NotExported /\ Import

ExpHistoryEffect == NotExported /\ HistoryEffect

ExpReleaseTimer == NotExported /\ ReleaseTimer

ExportNext ==
  \/ ExpClick
  \/ ExpSetDigit
  \/ ExpToggleCenter
  \/ ExpAnnotateColor
  \/ ExpUndo
  \/ ExpRedo
  \/ ExpImport
  \/ ExpHistoryEffect
  \/ ExpReleaseTimer
  \/ ExportToFresh

ExportSpec == SelInit /\ [][ExportNext]_vars

\* C14: importState(exportState(S)) into a fresh instance of the same size
\* succeeds and yields the PresetGrid, UserGrid, NoteCubes and ColorGrid of S.
C14_ExportImportRestores ==
  [][ExportToFresh =>
       /\ codecOut'.set
       /\ codecOut'.preset = preset
       /\ codecOut'.user = userGrid
       /\ codecOut'.center = centerNotes
       /\ codecOut'.corner = cornerNotes
       /\ codecOut'.colors = colorGrid]_vars

\* C15: after a successful importState, UserGrid is 0 and both note cubes
\* are empty at every cell whose imported preset is > 0, they equal the
\* decoded payload at every other cell, and PresetGrid and ColorGrid equal
\* the decoded payload everywhere.
C15_PresetWinsOnImport ==
  [][\A encoded \in ImportInputs(size) :
       (importState(encoded) /\ lastCall'.result = "void") =>
          LET parts == split(encoded, "|", 1, <<>>)
          IN /\ preset' = decodeNumGrid(parts[3], size).val
             /\ colorGrid' = decodeColors(parts[7], size).val
             /\ \A cell \in Cells(size) :
                  IF preset'[cell] > 0
                  THEN /\ userGrid'[cell] = 0
                       /\ centerNotes'[cell] = {}
                       /\ cornerNotes'[cell] = {}
                  ELSE /\ userGrid'[cell] = decodeNumGrid(parts[4], size).val[cell]
                       /\ centerNotes'[cell] = decodeDigitCube(parts[5], size).val[cell]
                       /\ cornerNotes'[cell] = decodeDigitCube(parts[6], size).val[cell]]_vars

\* an import has locked (0,0), dropping the payload's digit and notes there,
\* and has applied the payload's digit and note at the unlocked (0,1)
C15_Witness ==
  /\ lastCall.op = "importState"
  /\ lastCall.result = "void"
  /\ effectQueued
  /\ preset[<<0, 0>>] > 0
  /\ userGrid[<<0, 0>>] = 0
  /\ centerNotes[<<0, 0>>] = {}
  /\ userGrid[<<0, 1>>] = 2
  /\ centerNotes[<<0, 1>>] = {1}
  /\ colorGrid[<<0, 0>>] = <<"red">>

(***************************************************************************)
(* Properties of the pointer and key handlers (SelSpec)                    *)
(***************************************************************************)
\* C16: pointer-down at a cell with ctrl/meta starts paint-erase if the cell
\* is selected and paint-add otherwise, and keeps every other selected cell
\* selected; with shift only it starts rect; with neither modifier it starts
\* paint-add and the selection is exactly that cell; ctrl/meta wins over
\* shift.
C16_PointerDownMode ==
  [][\A cell \in PointerCells, ctrl \in BOOLEAN, shift \in BOOLEAN :
       onPointerDownGrid(cell, ctrl, shift) =>
         /\ dragRef'.mode =
              IF ctrl THEN (IF internalSelection[cell] THEN "paint-erase" ELSE "paint-add")
              ELSE IF shift THEN "rect" ELSE "paint-add"
         /\ ctrl => /\ internalSelection'[cell] = ~internalSelection[cell]
                    /\ \A other \in Cells(size) \ {cell} :
                         internalSelection'[other] = internalSelection[other]
         /\ (~ctrl /\ ~shift) =>
              internalSelection' = buildSingleSelection(size, cell[1], cell[2])]_vars

\* a ctrl pointer-down has started a paint-erase drag and other cells are
\* still selected
C16_Witness ==
  /\ lastCall.op = "pointerdown"
  /\ dragRef.mode = "paint-erase"
  /\ ~internalSelection[dragRef.start]
  /\ Cardinality({cell \in Cells(size) : internalSelection[cell]}) >= 2

\* x lies in the axis-aligned rectangle spanned by the cells s and p
InRect(s, p, x) ==
  /\ (s[1] <= x[1] /\ x[1] <= p[1]) \/ (p[1] <= x[1] /\ x[1] <= s[1])
  /\ (s[2] <= x[2] /\ x[2] <= p[2]) \/ (p[2] <= x[2] /\ x[2] <= s[2])

\* C17: a shift pointer-down at S starts a rect drag from S, and after every
\* pointer-move to P of that drag the Selection is exactly the rectangle
\* spanned by S and P, whatever was selected before the move.
C17_RectIsExact ==
  [][/\ \A cell \in PointerCells :
          onPointerDownGrid(cell, FALSE, TRUE) => dragRef'.start = cell
     /\ \A cell \in PointerCells :
          (onPointerMoveGrid(cell) /\ dragRef.mode = "rect") =>
             /\ dragRef'.start = dragRef.start
             /\ \A x \in Cells(size) :
                  internalSelection'[x] <=> InRect(dragRef.start, cell, x)]_vars

\* a rect drag from (0,0) has been moved to (0,1): the rectangle is the top
\* row and no cell of the bottom row is selected
C17_Witness ==
  /\ lastCall.op = "pointermove"
  /\ dragRef.mode = "rect"
  /\ dragRef.start = <<0, 0>>
  /\ dragRef.last = <<0, 1>>
  /\ internalSelection[<<0, 0>>]
  /\ internalSelection[<<0, 1>>]
  /\ ~internalSelection[<<1, 0>>]
  /\ ~internalSelection[<<1, 1>>]

\* C18: when a rect or paint-add drag ends by pointer-up or pointer-leave,
\* CurrentCell becomes the cell the pointer was over at the last move event
\* of the drag, or the start cell if the drag had no move event.
C18_DragEndSetsCurrent ==
  [][((onPointerUpGrid \/ onPointerLeaveGrid) /\ dragRef.mode \in {"rect", "paint-add"}) =>
        internalCurrent' = dragRef.at]_vars

(***************************************************************************)
(* EraseSpec: ctrl and shift drags over all four cells of the board, so    *)
(* that a paint-erase drag can start on a selection of four cells          *)
(***************************************************************************)
EraseCells == {<<0, 0>>, <<0, 1>>, <<1, 0>>, <<1, 1>>}

EraseDown ==
  \E cell \in EraseCells, ctrl \in BOOLEAN, shift \in BOOLEAN :
    (ctrl \/ shift) /\ onPointerDownGrid(cell, ctrl, shift)

EraseMove == \E cell \in EraseCells : onPointerMoveGrid(cell)

EraseNext ==
  \/ EraseDown
  \/ EraseMove
  \/ onPointerUpGrid

EraseSpec == SelInit /\ [][EraseNext]_vars

\* the cell CurrentCell moves to when `cell` is erased from `stack`: the
\* entry right before it, or the last remaining entry if it was the first
beforeErased(stack, cell) ==
  LET idx  == indexInStack(stack, cell)
      rest == removeFromStack(stack, cell)
  IN IF idx > 0 THEN stack[idx]
     ELSE IF Len(rest) > 0 THEN rest[Len(rest)] ELSE Undefined

\* C19: when a paint-erase drag erases the CurrentCell, at pointer-down or at
\* a later move, CurrentCell becomes the cell right before it in
\* SelectionStack, or the last element of the stack after removal if it was
\* first (undefined if that stack is empty).
C19_EraseMovesCurrentBack ==
  [][\A cell \in EraseCells :
       (/\ internalCurrent = cell
        /\ internalSelection[cell]
        /\ \/ onPointerDownGrid(cell, TRUE, FALSE) \/ onPointerDownGrid(cell, TRUE, TRUE)
           \/ /\ onPointerMoveGrid(cell)
              /\ dragRef.mode = "paint-erase"
              /\ ~internalSelection'[cell]) =>
          internalCurrent' = beforeErased(selectionStack, cell)]_vars

\* C20: with CurrentCell defined, an arrow key moves CurrentCell by exactly
\* one cell in its direction, or leaves it in place on that board edge, and
\* afterwards Selection holds exactly the new CurrentCell and SelectionStack
\* is [CurrentCell].
C20_ArrowMovesOneCell ==
  [][\A d \in Arrows :
       (moveCurrent(d[1], d[2]) /\ internalCurrent # Undefined) =>
          LET target == <<internalCurrent[1] + d[1], internalCurrent[2] + d[2]>>
              next   == IF target \in Cells(size) THEN target ELSE internalCurrent
          IN /\ internalCurrent' = next
             /\ \A x \in Cells(size) : internalSelection'[x] <=> (x = next)
             /\ selectionStack' = <<next>>]_vars

\* an arrow key pressed during a drag has moved CurrentCell to (1,0), a cell
\* no pointer event of the model reaches
C20_Witness ==
  /\ lastCall.op = "arrow"
  /\ dragRef.mode # "none"
  /\ internalCurrent = <<1, 0>>
  /\ selectionStack = <<<<1, 0>>>>
  /\ internalSelection[<<1, 0>>]

(***************************************************************************)
(* Properties of the target resolver and the editing operations (EditSpec) *)
(***************************************************************************)
\* the operations that go through withTargets
TargetStep == DigitStep \/ AnnotateStep

\* t lists exactly the selected cells of sel, by rows and by columns in a row
RowMajorListOf(t, sel) ==
  /\ Range(t) = {cell \in DOMAIN sel : sel[cell]}
  /\ \A i, j \in 1 .. Len(t) :
       i < j => \/ t[i][1] < t[j][1]
                \/ t[i][1] = t[j][1] /\ t[i][2] < t[j][2]

MaxDigitEdits == 2   \* log length up to which DigitSpec and NoteSpec offer edits

DigitValues == {0, 1, size}

DigitImport ==
  /\ Len(historyRef) = 1
  /\ timers = 0
  /\ preset = createNumberGrid(size)
  /\ importState(ExportFull(size))

DigitSetDigit ==
  /\ Len(historyRef) <= MaxDigitEdits
  /\ \E v \in DigitValues : setValueOnTargets(v)

DigitNext ==
  \/ Click
  \/ DigitImport
  \/ DigitSetDigit
  \/ HistoryEffect
  \/ ReleaseTimer

DigitSpec == SelInit /\ [][DigitNext]_vars

\* C22: setDigit(v) with v in [1,N] sets UserGrid to v at every target cell
\* that is not locked, whatever it held, and setDigit(0) sets it to 0 there;
\* UserGrid at every other cell, both NoteCubes and ColorGrid are unchanged.
C22_SetDigitWrites ==
  [][\A v \in 0 .. size :
       setValueOnTargets(v) =>
         /\ \A cell \in Cells(size) :
              userGrid'[cell] = IF Targeted(cell) /\ ~Locked(cell) THEN v ELSE userGrid[cell]
         /\ UNCHANGED <<centerNotes, cornerNotes, colorGrid>>]_vars

\* setDigit(1) ran on the selection of the locked (0,0) and of (0,1), which
\* held the imported 2 (the entry at the cursor still shows it), on a board
\* with notes and a colour
C22_Witness ==
  /\ lastCall.op = "setDigit"
  /\ effectQueued
  /\ internalSelection[<<0, 0>>] /\ internalSelection[<<0, 1>>]
  /\ preset[<<0, 0>>] > 0
  /\ userGrid[<<0, 0>>] = 0
  /\ userGrid[<<0, 1>>] = 1
  /\ suppressHistoryRef = 0
  /\ decodeNumGridAt(split(historyRef[histIndexRef + 1], "|", 1, <<>>), 3, size).val[<<0, 1>>] = 2
  /\ centerNotes[<<0, 1>>] = {1}
  /\ colorGrid[<<0, 0>>] = <<"red">>

(***************************************************************************)
(* NoteSpec: the note toggles on click selections of (0,0) and (0,1), with *)
(* digits inside and outside 1..N, on boards with and without a locked     *)
(* cell                                                                    *)
(***************************************************************************)
NoteDigits == {0, 1, size, size + 1}

NoteToggleCenter ==
  /\ Len(historyRef) <= MaxDigitEdits
  /\ \E d \in NoteDigits : toggleCenterNote(d)

NoteToggleCorner ==
  /\ Len(historyRef) <= MaxDigitEdits
  /\ \E d \in NoteDigits : toggleCornerNote(d)

NoteNext ==
  \/ Click
  \/ onKeyDownEscape
  \/ NoteToggleCenter
  \/ NoteToggleCorner
  \/ HistoryEffect

NoteSpec == Init /\ [][NoteNext]_vars

\* the cube with the presence of d flipped at every unlocked target cell
Flipped(cube, d) ==
  [cell \in Cells(size) |->
     IF Targeted(cell) /\ ~Locked(cell)
     THEN (IF d \in cube[cell] THEN cube[cell] \ {d} ELSE cube[cell] \cup {d})
     ELSE cube[cell]]

\* C23: toggleCenterNote(d) / toggleCornerNote(d) with d in [1,N] flips the
\* presence of d at each unlocked target cell on its own and changes no other
\* digit, no other cell and not the other cube; a second call with the same
\* targets gives the cube back.
C23_ToggleFlipsEachCell ==
  [][\A d \in 1 .. size :
       /\ toggleCenterNote(d) =>
            /\ centerNotes' = Flipped(centerNotes, d)
            /\ cornerNotes' = cornerNotes
            /\ toggleDigitIn(centerNotes', d) = centerNotes
       /\ toggleCornerNote(d) =>
            /\ cornerNotes' = Flipped(cornerNotes, d)
            /\ centerNotes' = centerNotes
            /\ toggleDigitIn(cornerNotes', d) = cornerNotes]_vars

\* toggleCenterNote(1) ran on the selection of (0,0) and (0,1): (0,0) gained
\* the digit and (0,1), which had it in the entry at the cursor, lost it
C23_Witness ==
  /\ lastCall.op = "toggleCenterNote"
  /\ effectQueued
  /\ internalSelection[<<0, 0>>] /\ internalSelection[<<0, 1>>]
  /\ centerNotes[<<0, 0>>] = {1}
  /\ centerNotes[<<0, 1>>] = {}
  /\ LET logged == decodeDigitCubeAt(split(historyRef[histIndexRef + 1], "|", 1, <<>>),
                                     4, size).val
     IN logged[<<0, 0>>] = {} /\ logged[<<0, 1>>] = {1}

OutOfRange(d) == d < 1 \/ d > size

\* C24: toggleCenterNote(d) and toggleCornerNote(d) with d < 1 or d > N raise
\* nothing, change no grid and call no setter, so that the log and the cursor
\* stay as they are.
C24_OutOfRangeToggleIgnored ==
  [][\A d \in NoteDigits :
       ((toggleCenterNote(d) \/ toggleCornerNote(d)) /\ OutOfRange(d)) =>
          /\ lastCall'.result = "void"
          /\ UNCHANGED <<preset, gridVars, histVars, selVars>>
          /\ effectQueued' = FALSE]_vars

\* toggleCornerNote(N+1) was called with the unlocked (0,1) as target, on a
\* board whose cubes hold notes, and left them and the two-entry log alone
C24_Witness ==
  /\ lastCall.op = "toggleCornerNote"
  /\ lastCall.arg = <<size + 1>>
  /\ lastCall.result = "void"
  /\ ~effectQueued
  /\ internalSelection[<<0, 1>>]
  /\ ~Locked(<<0, 1>>)
  /\ cornerNotes[<<0, 1>>] = {1}
  /\ Len(historyRef) = 2
  /\ historyRef[histIndexRef + 1] = snapshot.val

(***************************************************************************)
(* TagSpec: annotateColor on click selections of (0,0) and (0,1), on the   *)
(* empty board and after the import of a payload whose colour segment      *)
(* gives (0,0) the list red, blue, red                                     *)
(***************************************************************************)
StripedPayload(n) ==
  withSegment(ExportEmpty(n), 6, <<"3", "r", "b", "r">> \o [k \in 1 .. n * n - 1 |-> "0"])

TagImport ==
  /\ Len(historyRef) = 1
  /\ timers = 0
  /\ importState(StripedPayload(size))

TagAnnotateColor ==
  /\ Len(historyRef) <= MaxDigitEdits
  /\ \E color \in ColorArgs : annotateColor(color)

TagNext ==
  \/ Click
  \/ TagImport
  \/ TagAnnotateColor
  \/ HistoryEffect
  \/ ReleaseTimer

TagSpec == SelInit /\ [][TagNext]_vars

\* C25 as stated: annotateColor(color) acts on each target cell on its own:
\* if the colour is in the cell's list it is removed and the other tags keep
\* their order, otherwise it is appended at the end; the lists of the cells
\* that are not targets are unchanged.
C25_ColorToggledPerCell ==
  [][\A color \in ColorArgs :
       annotateColor(color) =>
         \A cell \in Cells(size) :
           colorGrid'[cell] =
             IF ~Targeted(cell) THEN colorGrid[cell]
             ELSE IF color \in Range(colorGrid[cell])
             THEN SelectSeq(colorGrid[cell], LAMBDA tag : tag # color)
             ELSE Append(colorGrid[cell], color)]_vars

(***************************************************************************)
(* ResetSpec: reset and setDigit on (0,1) until the log is full, on the    *)
(* empty board and on the board after an import that locks (0,0) and       *)
(* brings digits, notes and a colour                                       *)
(***************************************************************************)
\* offered on boards without notes, that is before the import and after the
\* first reset that follows it
ResetSetDigit ==
  /\ centerNotes = createDigitCube(size)
  /\ \E v \in HistDigits : setValueOnTargets(v)

ResetNext ==
  \/ HistClick
  \/ DigitImport
  \/ ResetSetDigit
  \/ reset
  \/ HistoryEffect
  \/ ReleaseTimer

ResetSpec == SelInit /\ [][ResetNext]_vars

\* the history effect that follows a reset call
ResetRecording == HistoryEffect /\ lastCall.op = "reset"

\* what reset does to the board and to the selection
ResetClears ==
  reset =>
    /\ userGrid' = [cell \in Cells(size) |-> 0]
    /\ centerNotes' = [cell \in Cells(size) |-> {}]
    /\ cornerNotes' = [cell \in Cells(size) |-> {}]
    /\ colorGrid' = [cell \in Cells(size) |-> <<>>]
    /\ UNCHANGED <<preset, internalSelection, internalCurrent, selectionStack, histVars>>

\* the entries at or before the cursor are still in the log, in their places
PrefixKept ==
  /\ Len(historyRef') >= histIndexRef + 1
  /\ SubSeq(historyRef', 1, histIndexRef + 1) = SubSeq(historyRef, 1, histIndexRef + 1)

\* C26 as stated: reset() empties UserGrid, both NoteCubes and ColorGrid at
\* every cell whatever is selected, leaves PresetGrid, Selection, CurrentCell
\* and SelectionStack unchanged, and neither the call nor the recording of
\* its result removes a history entry at or before the cursor.
C26_ResetKeepsLog ==
  [][/\ ResetClears
     /\ ResetRecording => PrefixKept]_vars

\* C26 amended: as above, except that recording the reset into a log whose
\* cursor is at the 200th entry drops the oldest entry; every other entry
\* at or before the cursor is kept.
C26_ResetKeepsLogUpToCap ==
  [][/\ ResetClears
     /\ ResetRecording =>
          IF histIndexRef + 1 = MAX_HISTORY /\ historyRef' # historyRef
          THEN historyRef' = Append(Tail(historyRef), snapshot.val)
          ELSE PrefixKept]_vars

\* reset has cleared a board that held a digit at the selected (0,1) (the
\* entry at the cursor still shows it) while the log holds 200 entries
C26_Witness ==
  /\ lastCall.op = "reset"
  /\ effectQueued
  /\ suppressHistoryRef = 0
  /\ Len(historyRef) = MAX_HISTORY
  /\ histIndexRef = MAX_HISTORY - 1
  /\ internalSelection[<<0, 1>>]
  /\ preset[<<0, 0>>] > 0
  /\ userGrid = createNumberGrid(size)
  /\ decodeNumGridAt(split(historyRef[histIndexRef + 1], "|", 1, <<>>), 3, size).val[<<0, 1>>] = 1

(***************************************************************************)
(* Recording of mutations (RedoSpec)                                       *)
(***************************************************************************)
\* an editing operation has changed a grid while recording is not suppressed
\* (no release timer is pending, so the history effect that follows runs
\* with the counter at 0)
Mutation ==
  /\ lastCall'.op \in EditOps
  /\ gridVars' # gridVars
  /\ suppressHistoryRef = 0

\* the log and cursor the history effect of the operation leaves
Recorded ==
  pushHistory(historyRef, histIndexRef, suppressHistoryRef,
              buildPayload(size, preset, userGrid', centerNotes', cornerNotes', colorGrid').val)

\* C27: when an editing operation (reset included) changes the state and
\* recording is not suppressed, the snapshot of the new state is appended
\* right after the cursor and becomes the cursor entry, and the entry before
\* it, which an immediately following undo() restores, holds the UserGrid,
\* NoteCubes and ColorGrid of before the operation.  (The logs of RedoSpec
\* stay below the capacity.)
C27_MutationsRecorded ==
  [][Mutation =>
       /\ Recorded.idx = histIndexRef + 1
       /\ Recorded.h =
            Append(SubSeq(historyRef, 1, histIndexRef + 1),
                   buildPayload(size, preset, userGrid', centerNotes', cornerNotes',
                                colorGrid').val)
       /\ LET parts == split(Recorded.h[Recorded.idx], "|", 1, <<>>)
          IN /\ decodeNumGridAt(parts, 3, size).val = userGrid
             /\ decodeDigitCubeAt(parts, 4, size).val = centerNotes
             /\ decodeDigitCubeAt(parts, 5, size).val = cornerNotes
             /\ decodeColorsAt(parts, 6, size).val = colorGrid]_vars

(***************************************************************************)
(* SizeSpec: the parent changes the `size` prop (presetGrid undefined)     *)
(* between setDigit and undo calls on cell (0,0)                           *)
(***************************************************************************)
\* variant: the size effect leaves the log and the cursor alone
onSizeChangeKeepLog(n) ==
  /\ ~effectQueued
  /\ n # size
  /\ size' = n
  /\ preset' = createNumberGrid(n)
  /\ internalSelection' = createEmptySelection(n)
  /\ internalCurrent' = Undefined
  /\ selectionStack' = <<>>
  /\ userGrid' = createNumberGrid(n)
  /\ centerNotes' = createDigitCube(n)
  /\ cornerNotes' = createDigitCube(n)
  /\ colorGrid' = createColorGrid(n)
  /\ UNCHANGED histVars
  /\ effectQueued' = TRUE
  /\ lastCall' = Call("resize", "void")
  /\ UNCHANGED <<codecVars, dragRef, suppressHistoryRef, timers>>

\* variant: the size effect empties the log and leaves the cursor alone
onSizeChangeKeepCursor(n) ==
  /\ ~effectQueued
  /\ n # size
  /\ size' = n
  /\ preset' = createNumberGrid(n)
  /\ internalSelection' = createEmptySelection(n)
  /\ internalCurrent' = Undefined
  /\ selectionStack' = <<>>
  /\ userGrid' = createNumberGrid(n)
  /\ centerNotes' = createDigitCube(n)
  /\ cornerNotes' = createDigitCube(n)
  /\ colorGrid' = createColorGrid(n)
  /\ historyRef' = <<>>
  /\ UNCHANGED histIndexRef
  /\ effectQueued' = TRUE
  /\ lastCall' = Call("resize", "void")
  /\ UNCHANGED <<codecVars, dragRef, suppressHistoryRef, timers>>

\* a render with a new `size` and the effects that follow it: the preset
\* effect (grid.tsx:134) and the size effect (grid.tsx:138); the grids get a
\* new identity, which queues the history effect
onSizeChange(n) ==
  /\ ~effectQueued
  /\ n # size
  /\ size' = n
  /\ preset' = createNumberGrid(n)
  /\ internalSelection' = createEmptySelection(n)
  /\ internalCurrent' = Undefined
  /\ selectionStack' = <<>>
  /\ userGrid' = createNumberGrid(n)
  /\ centerNotes' = createDigitCube(n)
  /\ cornerNotes' = createDigitCube(n)
  /\ colorGrid' = createColorGrid(n)
  /\ historyRef' = <<>>
  /\ histIndexRef' = -1
  /\ effectQueued' = TRUE
  /\ lastCall' = Call("resize", "void")
  /\ UNCHANGED <<codecVars, dragRef, suppressHistoryRef, timers>>

SizeInputs == {1, BoardSize}

SizeChange == \E n \in SizeInputs : onSizeChange(n)

SizeClick == dragRef.mode = "none" /\ onPointerDownGrid(<<0, 0>>, FALSE, FALSE)

SizeNext ==
  \/ SizeChange
  \/ SizeClick
  \/ onPointerUpGrid
  \/ HistSetDigit
  \/ Undo
  \/ HistoryEffect
  \/ ReleaseTimer

SizeSpec == SelInit /\ [][SizeNext]_vars

\* the history effect of the render that follows a size change
AfterResize == HistoryEffect /\ lastCall.op = "resize"

\* the history effect of a setDigit call runs unsuppressed
DigitRecording ==
  /\ HistoryEffect
  /\ lastCall.op = "setDigit"
  /\ suppressHistoryRef = 0

\* C28 as stated: a board-size change leaves the log empty with cursor -1,
\* the log stays so until the first mutation that follows, and the snapshot
\* of that mutation becomes the baseline (log length 1, cursor 0, so that
\* undo() returns false).
C28_LogEmptyUntilMutation ==
  [][/\ \A n \in SizeInputs : onSizeChange(n) => historyRef' = <<>> /\ histIndexRef' = -1
     /\ AfterResize => historyRef' = <<>> /\ histIndexRef' = -1
     /\ (DigitRecording /\ historyRef = <<>>) =>
          historyRef' = <<snapshot.val>> /\ histIndexRef' = 0
     /\ (undo /\ Len(historyRef) = 1) => lastCall'.result = "false"]_vars

\* C28 amended: a board-size change empties the log (cursor -1); the history
\* effect of the render that follows records the empty board of the new
\* size as the baseline (log length 1, cursor 0) unless recording is
\* suppressed at that moment; the first mutation recorded after that becomes
\* the second entry (length 2, cursor 1) and undo() then returns true.  When
\* the baseline was suppressed, the first recorded setDigit becomes the
\* baseline and undo() returns false.
C28_BaselineAfterResize ==
  [][/\ \A n \in SizeInputs : onSizeChange(n) => historyRef' = <<>> /\ histIndexRef' = -1
     /\ AfterResize =>
          IF suppressHistoryRef = 0
          THEN historyRef' = <<ExportEmpty(size)>> /\ histIndexRef' = 0
          ELSE historyRef' = <<>> /\ histIndexRef' = -1
     /\ (DigitRecording /\ historyRef = <<ExportEmpty(size)>> /\ userGrid # createNumberGrid(size)) =>
          historyRef' = <<ExportEmpty(size), snapshot.val>> /\ histIndexRef' = 1
     /\ (DigitRecording /\ historyRef = <<>>) =>
          historyRef' = <<snapshot.val>> /\ histIndexRef' = 0
     /\ undo => (lastCall'.result = "true" <=> histIndexRef >= 1)]_vars

\* on the board resized to 1x1, the first setDigit has been recorded after
\* the baseline of the empty board
C28_Witness ==
  /\ size = 1
  /\ lastCall.op = "setDigit"
  /\ ~effectQueued
  /\ historyRef = <<ExportEmpty(1), snapshot.val>>
  /\ histIndexRef = 1
  /\ userGrid[<<0, 0>>] = 1

(***************************************************************************)
(* Selection stack and current cell under pointer and key events (SelSpec) *)
(***************************************************************************)
\* C29: after any sequence of pointer-down/move/up/leave, arrow-key and
\* Escape events, keys during a drag included, SelectionStack has no
\* duplicates and holds exactly the cells that are selected in Selection.
C29_StackMatchesSelection ==
  /\ \A i, j \in 1 .. Len(selectionStack) : i # j => selectionStack[i] # selectionStack[j]
  /\ Range(selectionStack) = {cell \in Cells(size) : internalSelection[cell]}

\* C30: when a paint-erase drag erases a cell that is not the CurrentCell, at
\* pointer-down or at a later move, CurrentCell is unchanged.
C30_EraseElsewhereKeepsCurrent ==
  [][\A cell \in EraseCells :
       (/\ internalCurrent # cell
        /\ internalSelection[cell]
        /\ \/ onPointerDownGrid(cell, TRUE, FALSE) \/ onPointerDownGrid(cell, TRUE, TRUE)
           \/ /\ onPointerMoveGrid(cell)
              /\ dragRef.mode = "paint-erase"
              /\ ~internalSelection'[cell]) =>
          internalCurrent' = internalCurrent]_vars

(***************************************************************************)
(* RangeSpec: setDigit called with integers on both sides of the range the *)
(* number grid codec can encode                                            *)
(***************************************************************************)
RangeValues == {0 - 1, 0, 35, 36}

RangeSetDigit ==
  /\ Len(historyRef) <= MaxDigitEdits
  /\ \E v \in RangeValues : setValueOnTargets(v)

RangeNext ==
  \/ Click
  \/ RangeSetDigit
  \/ HistoryEffect

RangeSpec == Init /\ [][RangeNext]_vars

\* C31: every UserGrid entry is an integer in [0,35], so a snapshot (and
\* exportState, which builds the same payload) never raises the
\* out-of-range encode error.
C31_UserGridEncodable ==
  /\ \A cell \in Cells(size) : userGrid[cell] \in 0 .. 35
  /\ snapshot.ok

\* C32: in every reachable state, also after importState of an accepted
\* payload and after undo and redo, no cell's colour list holds the same
\* colour twice.
C32_NoRepeatedColor ==
  \A cell \in Cells(size) :
    \A i, j \in 1 .. Len(colorGrid[cell]) :
      i # j => colorGrid[cell][i] # colorGrid[cell][j]

(***************************************************************************)
(* Invariants of the history log and its cursor                            *)
(***************************************************************************)
\* the history effect runs unsuppressed on grids equal to the entry at the
\* cursor
Rerecording ==
  /\ HistoryEffect
  /\ suppressHistoryRef = 0
  /\ snapshot.ok
  /\ histIndexRef >= 0
  /\ snapshot.val = historyRef[histIndexRef + 1]

NoEqualNeighbours(h) == \A i \in 1 .. Len(h) - 1 : h[i] # h[i + 1]

\* C33: no two adjacent entries of the history log are ever equal: recording
\* a snapshot equal to the entry at the cursor leaves the log and the cursor
\* unchanged, and cutting the redo tail or trimming the front never makes two
\* equal snapshots adjacent.
C33_NoEqualNeighbours ==
  [][/\ NoEqualNeighbours(historyRef')
     /\ Rerecording => UNCHANGED histVars]_vars

\* the log is full, its front has been trimmed, and the entry at the cursor
\* was recorded by an edit that followed an undo, which cut the redo tail
C33_Witness ==
  /\ Len(historyRef) = 200
  /\ histIndexRef = 199
  /\ historyRef[1] # ExportEmpty(size)
  /\ lastCall.trail = "undo-recorded"

(***************************************************************************)
(* CursorSpec: setDigit, reset, undo, redo, importState and changes of the *)
(* `size` prop on cell (0,0)                                               *)
(***************************************************************************)
CursorNext ==
  \/ SizeChange
  \/ SizeClick
  \/ onPointerUpGrid
  \/ HistSetDigit
  \/ HistReset
  \/ Undo
  \/ Redo
  \/ Import
  \/ HistoryEffect
  \/ ReleaseTimer

CursorSpec == SelInit /\ [][CursorNext]_vars

\* C34: the history cursor satisfies -1 <= cursor <= length - 1, and it is
\* -1 exactly when the log is empty, across recording, trimming, undo, redo,
\* import, reset and board-size change.
C34_CursorInLog ==
  /\ histIndexRef \in -1 .. Len(historyRef) - 1
  /\ histIndexRef = -1 <=> Len(historyRef) = 0

\* a size change emptied the log while a release timer was pending, and the
\* suppressed history effect has left it empty
C34_Witness ==
  /\ lastCall.op = "resize"
  /\ ~effectQueued
  /\ suppressHistoryRef > 0
  /\ historyRef = <<>>
  /\ histIndexRef = -1

(***************************************************************************)
(* Invariants of the grids under edits, import, undo and redo (ExportSpec) *)
(***************************************************************************)
\* C35: in every state reachable by edits, importState, undo, redo and
\* reset, UserGrid is 0 and both note cubes are empty at every cell whose
\* PresetGrid value is > 0.
C35_LockedCellsEmpty ==
  \A cell \in Cells(size) :
    isPreset(cell) =>
      /\ userGrid[cell] = 0
      /\ centerNotes[cell] = {}
      /\ cornerNotes[cell] = {}

(***************************************************************************)
(* CurrentCell and Selection under pointer and key events (SelSpec)        *)
(***************************************************************************)
\* C36: after any sequence of pointer and keyboard events, CurrentCell, when
\* defined, is a cell that is selected in Selection.
C36_CurrentIsSelected ==
  internalCurrent # Undefined => internalSelection[internalCurrent]

(***************************************************************************)
(* RevertSpec: setDigit on cell (0,1), importState, undo and redo, with    *)
(* imports offered up to the last cursor position the edits reach          *)
(***************************************************************************)
RevertImport ==
  /\ timers < MaxTimers
  /\ histIndexRef <= MaxCursor
  /\ importState(ExportFull(size))

RevertNext ==
  \/ HistClick
  \/ HistSetDigit
  \/ RevertImport
  \/ Undo
  \/ Redo
  \/ HistoryEffect
  \/ ReleaseTimer

RevertSpec == SelInit /\ [][RevertNext]_vars

\* C37: if undo() returns true and the next call of the handle is redo(),
\* then after it UserGrid, both note cubes and ColorGrid are exactly what
\* they were before the undo(), also when the undo() came right after an
\* importState.
C37_RedoRevertsUndo ==
  [][(redo /\ lastCall.op = "undo" /\ lastCall.result = "true") =>
        gridVars' = lastCall.before]_vars

(***************************************************************************)
(* Edits made before the deferred release of the suppress counter          *)
(* (RedoSpec)                                                              *)
(***************************************************************************)
\* the history effect of an editing operation runs while the suppress
\* counter is still raised: the operation was called after an undo, redo or
\* import had returned and before its release timer has run
EffectInWindow ==
  /\ HistoryEffect
  /\ lastCall.op \in EditOps
  /\ suppressHistoryRef > 0
  /\ snapshot.ok

\* C38: an edit invoked after undo(), redo() or importState() has returned
\* and before the deferred release of the suppress counter is still
\* recorded.  After the edit's history effect only release timers are
\* pending, and they change neither the log nor the grids, so the entry at
\* the cursor equals the snapshot of the state once everything has run
\* exactly if the effect leaves it so.
C38_WindowEditsRecorded ==
  [][EffectInWindow =>
       /\ histIndexRef' >= 0
       /\ historyRef'[histIndexRef' + 1] = snapshot.val]_vars

(***************************************************************************)
(* SuppressSpec: importState on intact and damaged payloads together with  *)
(* undo and redo, on boards with and without a locked cell; undo and redo  *)
(* succeed on the entries that imports recorded after their release timer  *)
(***************************************************************************)
\* redo is offered on logs of up to MaxDigitEdits entries: after an import
\* has changed the preset, the history effect of a redo can append to the log
SuppressRedo ==
  /\ timers < MaxTimers
  /\ Len(historyRef) <= MaxDigitEdits
  /\ redo

SuppressNext ==
  \/ ImportAny
  \/ Undo
  \/ SuppressRedo
  \/ HistoryEffect
  \/ ReleaseTimer

SuppressSpec == Init /\ [][SuppressNext]_vars

RejectedEarly == {ErrInvalid, ErrSegments, ErrSize}

\* C39: the suppress counter is never negative; it equals the number of
\* release timers still pending, so that after every undo, redo or
\* importState, also an importState that raises while decoding a body
\* segment, it is back to 0 once the pending timers have run; and an
\* importState rejected for its header, segment count or size does not
\* change it.
C39_SuppressReleased ==
  [][/\ suppressHistoryRef' >= 0
     /\ suppressHistoryRef' = timers'
     /\ (/\ lastCall'.result \in RejectedEarly
         /\ \E encoded \in ImportInputs(size) : importState(encoded)) =>
            UNCHANGED <<suppressHistoryRef, timers>>]_vars

\* importState has raised from inside the decoding block, its release timer
\* has run and the counter is back to 0
C39_Witness ==
  /\ lastCall.op = "importState"
  /\ lastCall.result \notin RejectedEarly \cup {"void"}
  /\ timers = 0
  /\ suppressHistoryRef = 0

(***************************************************************************)
(* FrameSpec: a drag from (0,0) to (0,1), ArrowDown and Escape interleaved *)
(* with one recorded edit or import and with undo and redo                 *)
(***************************************************************************)
FrameDown == onPointerDownGrid(<<0, 0>>, FALSE, FALSE)

FrameMove == onPointerMoveGrid(<<0, 1>>)

FrameArrow == moveCurrent(1, 0)

\* the handle's mutating operations, offered while the log holds only the
\* entry recorded at mount
FrameEdit ==
  /\ Len(historyRef) = 1
  /\ timers = 0
  /\ \/ setValueOnTargets(1)
     \/ toggleCenterNote(1)
     \/ annotateColor("red")
     \/ annotateClear
     \/ importState(ExportFull(size))

FrameNext ==
  \/ FrameDown
  \/ FrameMove
  \/ onPointerUpGrid
  \/ onPointerLeaveGrid
  \/ FrameArrow
  \/ onKeyDownEscape
  \/ FrameEdit
  \/ Undo
  \/ Redo
  \/ HistoryEffect
  \/ ReleaseTimer

FrameSpec == SelInit /\ [][FrameNext]_vars

GestureOps == {"pointerdown", "pointermove", "pointerup", "pointerleave", "arrow", "escape"}

\* a pointer-down, pointer-move, pointer-up or pointer-leave event, an arrow
\* key or Escape (every handler names itself in lastCall: testing the name
\* first spares evaluating the handlers on the other steps)
GestureStep ==
  /\ lastCall'.op \in GestureOps
  /\ \/ \E cell \in Cells(size), ctrl \in BOOLEAN, shift \in BOOLEAN :
          onPointerDownGrid(cell, ctrl, shift)
     \/ \E cell \in Cells(size) : onPointerMoveGrid(cell)
     \/ onPointerUpGrid
     \/ onPointerLeaveGrid
     \/ \E d \in Arrows : moveCurrent(d[1], d[2])
     \/ onKeyDownEscape

\* a call of setDigit, of a note or colour operation, of undo, redo or
\* importState
HandleStep ==
  \/ /\ lastCall'.op \in EditOps
     /\ \/ \E v \in DigitArgs :
             setValueOnTargets(v) \/ toggleCenterNote(v) \/ toggleCornerNote(v)
        \/ clearCenterNotes
        \/ clearCornerNotes
        \/ \E color \in ColorArgs : annotateColor(color)
        \/ annotateClear
  \/ lastCall'.op = "undo" /\ undo
  \/ lastCall'.op = "redo" /\ redo
  \/ /\ lastCall'.op = "importState"
     /\ \E encoded \in ImportInputs(size) : importState(encoded)

\* C40: pointer gestures, arrow keys and Escape never change PresetGrid,
\* UserGrid, either note cube, ColorGrid, the history log or its cursor (nor
\* do they queue the history effect); setDigit, the note and colour
\* operations, undo, redo and importState never change Selection,
\* CurrentCell or SelectionStack.
C40_GesturesAndEditsDisjoint ==
  [][/\ GestureStep => UNCHANGED <<preset, gridVars, histVars, effectQueued>>
     /\ HandleStep => UNCHANGED <<internalSelection, internalCurrent, selectionStack>>]_vars

\* undo has restored the empty board under a selection of two cells whose
\* CurrentCell the drag has put on (0,1)
C40_Witness ==
  /\ lastCall.op = "undo"
  /\ lastCall.result = "true"
  /\ internalSelection[<<0, 0>>]
  /\ internalSelection[<<0, 1>>]
  /\ internalCurrent = <<0, 1>>
  /\ Len(historyRef) = 2

====
